---- MODULE Spec2Model ----
(***************************************************************************)
(* go-llca: the table-driven, row-partitioned engine of package game.      *)
(*                                                                         *)
(* The state is the Game struct's grid, scratch buffer, pixel array, rule  *)
(* sets and rule tables, the package variables POOL_SIZE and boardUpdates, *)
(* and the goroutines of one updateBoard call: the main goroutine's        *)
(* position (pc), the locals numParts and rowsPerPart it keeps across the  *)
(* barriers, the WaitGroup counter, and one record per updateRange         *)
(* goroutine.  Around them are the fields that Update, restart and the     *)
(* pause menu work on: the speed, the paused flag, the frame counter, the  *)
(* rules, density and scale selected in the menu, and the random source r. *)
(*                                                                         *)
(* Arrays are 0-based functions, as the Go slices are.  A goroutine of     *)
(* updateRange takes one step per board row: the steps of different        *)
(* goroutines interleave freely within a phase.                            *)
(***************************************************************************)
EXTENDS Integers, Sequences, FiniteSets

\* ------------------------------------------------------------- bounds

\* Boards of every width 1..MaxGridX and height 1..MaxGridY with at most
\* MaxCells cells are explored with random draws.
MaxGridX == 3
MaxGridY == 8
MaxCells == 24

\* Boards one cell wide of every height up to MaxStripY are explored with
\* the densities 0 and 100.
MaxStripY == 16

\* POOL_SIZE ranges over 1 << e for e in 0..MaxPoolShift.
MaxPoolShift == 2

\* updateBoard is called at most MaxGen times in a behaviour.
MaxGen == 2

\* With a density strictly between 0 and 100, the draws that come out alive
\* lie within MaxSpan consecutive draws.
MaxSpan == 2

\* On the boards of the scenarios updateBoard is called at most MaxScenarioGen
\* times in a behaviour.
MaxScenarioGen == 3

\* updateBoard calls on the board of the glider.
MaxGliderGen == 4

\* Update is called with ui.speed within -MaxSpeed..MaxSpeed.
MaxSpeed == 1

\* Update returns from at most MaxUpdateCount unpaused calls in a behaviour.
MaxUpdateCount == 3

\* InitializeBoard is called at most MaxRuns times in a behaviour.
MaxRuns == 2

\* Live cell percentages in the menu: explored within MaxEdge steps of 0.1 and
\* of 1 from 0 and from 100, and at the multiples of 10.
MaxEdge == 1

\* updateBoardAlt calls.
MaxAltCalls == 2

\* At most MaxRecordings recordings are started in a behaviour.
MaxRecordings == 2

\* The engine of main.go is explored on the boards of at most MaxSelfSide
\* columns and rows: with every set of living cells on those of at most
\* MaxSelfCells cells, with none, all and all but one of the cells alive on
\* the others; with at most MaxSelfGen unpaused Update calls in a behaviour.
MaxSelfSide == 3
MaxSelfCells == 6
MaxSelfGen == 3

\* The divide-and-conquer engine is explored on boards of up to MaxDivideRows
\* rows, with at most MaxDivideGen board updates in a behaviour, started with
\* one goroutine alive or with up to MaxHeadroom fewer than MAX_ROUTINES.
MaxDivideRows == 10
MaxDivideGen == 1
MaxHeadroom == 3

\* ---------------------------------------------------------- constants

\* len(becomesAliveTable) = len(becomesDeadTable).
TableLen == 18

\* len(Ruleset).
RuleLen == 9

\* updateBoard: numParts > g.gridY/4.
MinRowsPerPart == 4

\* const SEED.
SEED == 0

\* r.Int63n(100000).
DrawRange == 100000

\* const MAX_ROUTINES.
MAX_ROUTINES == 64

\* runtime.NumCPU() of the machine the program runs on.
NumCPU == 1

\* The screen of the machine the frames of Update are explored on.
DefaultScreen == <<4, 8>>

\* The screens the pause menu is explored on: with three, one and two common
\* divisors of width and height.
Screens == { <<4, 8>>, <<3, 4>>, <<2, 4>> }

VARIABLES
    gridX, gridY,            \* Game.gridX, Game.gridY
    POOL_SIZE,               \* package variable POOL_SIZE
    bRules, sRules,          \* Game.bRules, Game.sRules
    becomesAliveTable,       \* Game.becomesAliveTable
    becomesDeadTable,        \* Game.becomesDeadTable
    worldGrid,               \* Game.worldGrid
    buffer,                  \* Game.buffer
    pixels,                  \* Game.pixels
    pc,                      \* position of the goroutine that runs updateBoard
    numParts, rowsPerPart,   \* locals of updateBoard
    tasks,                   \* the updateRange goroutines of the running call
    wg,                      \* Game.wg, the WaitGroup counter
    boardUpdates,            \* package variable boardUpdates
    r,                       \* package variable r: the state of the random source
    scaleFactor,             \* Game.scaleFactor
    avgStartingLiveCellPercentage,  \* Game.avgStartingLiveCellPercentage, in tenths of a percent
    isPaused,                \* Game.isPaused
    updateCount,             \* Game.updateCount
    ui,                      \* Game.ui: speed, selectedBRules, selectedSRules,
                             \* rulesBeingChanged, selectedLiveCellPercent, scaleFactorIndex
    upd,                     \* the running Update call: its position, the updateBoard
                             \* calls it still makes, its deferred pause toggle
    runs,                    \* history: the number of InitializeBoard calls so far
    grid0,                   \* history: the board as the first InitializeBoard left it
    frames,                  \* history: speed and number of updateBoard calls of the
                             \* latest unpaused Update calls that ran at the speed of
                             \* the latest one, the latest last
    screen,                  \* what ebiten.ScreenSizeInFullscreen() returns: <<width, height>>
    taskChannel,             \* Game.taskChannel: the tasks (indices of tasks) in its buffer
    workers,                 \* the goroutines g.worker() that InitializeState started
    alt,                     \* the running updateBoardAlt call: the number of tasks of
                             \* its pass it has added to wg and has sent; history: the
                             \* number of updateBoardAlt calls so far
    rec,                     \* Game.isSaving and Game.gifSaver, the goroutines that
                             \* write a GIF, whether Draw followed the latest Update;
                             \* history: the recordings started, the board at the
                             \* start of the latest one, the files written
    dc                       \* the divide-and-conquer Update that is running: its
                             \* position, its WaitGroup, the updateRange calls, the
                             \* goroutines alive beside them; history: how often the
                             \* leaf kernel processed each row

\* What updateBoard and its goroutines work on.
boardVars == <<gridX, gridY, POOL_SIZE, bRules, sRules, becomesAliveTable,
               becomesDeadTable, worldGrid, buffer, pixels, pc, numParts,
               rowsPerPart, tasks, wg, boardUpdates>>

\* What only Update, restart, the initialization, updateBoardAlt and the
\* workers of the pool work on.
updateVars == <<r, scaleFactor, avgStartingLiveCellPercentage, isPaused,
                updateCount, ui, upd, runs, grid0, frames, screen, taskChannel,
                workers, alt, rec, dc>>

\* ebiten.ScreenSizeInFullscreen() of the machine the program runs on.
ScreenSizeInFullscreen == screen

vars == <<boardVars, updateVars>>

\* ------------------------------------------------------------ helpers

\* A Go int8: arithmetic wraps modulo 2^8.
Int8(x) == ((x + 128) % 256) - 128

\* TRUE, for any value v.  TLC evaluates the arguments of an operator on
\* demand: a loop that tests Evaluated(v) computes v before its next iteration,
\* which keeps the depth of the evaluation that of a single iteration.
Evaluated(v) == v = v

\* 1 << e.
Pow2(e) == IF e = 0 THEN 1 ELSE IF e = 1 THEN 2 ELSE IF e = 2 THEN 4
           ELSE IF e = 3 THEN 8 ELSE IF e = 4 THEN 16 ELSE IF e = 5 THEN 32 ELSE 64

\* The index of "worldGrid[i][j]" in the flat slice of a board of width w.
Idx(w, i, j) == i * (w + 2) + j

\* colors[0] is white, colors[1] is black.
colors == << <<255, 255, 255, 255>>, <<0, 0, 0, 255>> >>

\* setPixel with the two colours taken for each other.
setPixelSwapped(pix, w, x, y, isBlack) ==
    LET i == IF isBlack THEN 0 ELSE 1
        ind == 4 * (y * w + x)
    IN  [pix EXCEPT ![ind] = colors[i + 1][1], ![ind + 1] = colors[i + 1][2],
                    ![ind + 2] = colors[i + 1][3], ![ind + 3] = colors[i + 1][4]]

\* setPixel(pixels, gridX, x, y, isBlack): copy(pixels[ind:ind+4], colors[i]).
setPixel(pix, w, x, y, isBlack) ==
    LET i == IF isBlack THEN 1 ELSE 0
        ind == 4 * (y * w + x)
    IN  [pix EXCEPT ![ind] = colors[i + 1][1], ![ind + 1] = colors[i + 1][2],
                    ![ind + 2] = colors[i + 1][3], ![ind + 3] = colors[i + 1][4]]

\* ------------------------------------------------------ rule tables

\* A Ruleset from the set of neighbour counts it holds.
Ruleset(digits) == [k \in 0..(RuleLen - 1) |-> k \in digits]

\* updateTables with becomesAliveTable[2*(i-1)] for bRules[i].
updateTablesAliveOffByOne(b) ==
    [v \in 0..(TableLen - 1) |-> \E i \in 0..(RuleLen - 1) : b[i] /\ v = 2 * (i - 1)]

\* updateTables, from the rule sets b and s.
updateTablesAlive(b) ==
    [v \in 0..(TableLen - 1) |-> \E i \in 0..(RuleLen - 1) : b[i] /\ v = 2 * i]

\* updateTables indexing sRules by a count that includes the cell itself.
updateTablesDeadSelfCounted(s) ==
    [v \in 0..(TableLen - 1) |-> \E i \in 0..(RuleLen - 1) : ~s[i] /\ v = 1 + 2 * (i + 1)]

updateTablesDead(s) ==
    [v \in 0..(TableLen - 1) |-> \E i \in 0..(RuleLen - 1) : ~s[i] /\ v = 1 + 2 * i]

\* The rule sets a run is started with: B3/S23, B0/S, B1357/S1357.
RuleSets ==
    { <<{3}, {2, 3}>>, <<{0}, {}>>, <<{1, 3, 5, 7}, {1, 3, 5, 7}>> }

\* ------------------------------------------------------ InitializeBoard

\* The row of the c-th draw with the loop over i started at 0.
DrawRowFromZero(w, c) == c \div w

\* The cell (row, column) of the c-th draw, c counted from 0 in row-major order.
DrawRow(w, c) == c \div w + 1
DrawCol(w, c) == (c % w) + 1

\* The loops over a and b without their test (a != 0) || (b != 0).
InitDeltaSelf(a, b) == 2

\* What a cell that is drawn alive adds to the slot at offset (a, b) from it:
\* the loops over a and b skip the cell itself.
InitDelta(a, b) == IF (a # 0) \/ (b # 0) THEN 2 ELSE 0

\* grid with d added to slot k, as an int8.
AddAt(grid, k, d) == [grid EXCEPT ![k] = Int8(@ + d)]

\* worldGrid after the cell (i, j) was drawn alive: "|= 1", then the loops
\* over a and b.
InitAlive(w, grid, i, j) ==
    LET g0 == [grid EXCEPT ![Idx(w, i, j)] = IF @ % 2 = 0 THEN @ + 1 ELSE @]
        g1 == AddAt(g0, Idx(w, i - 1, j - 1), InitDelta(-1, -1))
        g2 == AddAt(g1, Idx(w, i - 1, j), InitDelta(-1, 0))
        g3 == AddAt(g2, Idx(w, i - 1, j + 1), InitDelta(-1, 1))
        g4 == AddAt(g3, Idx(w, i, j - 1), InitDelta(0, -1))
        g5 == AddAt(g4, Idx(w, i, j), InitDelta(0, 0))
        g6 == AddAt(g5, Idx(w, i, j + 1), InitDelta(0, 1))
        g7 == AddAt(g6, Idx(w, i + 1, j - 1), InitDelta(1, -1))
        g8 == AddAt(g7, Idx(w, i + 1, j), InitDelta(1, 0))
    IN  AddAt(g8, Idx(w, i + 1, j + 1), InitDelta(1, 1))

RECURSIVE InitRow(_, _, _, _, _, _)
\* The loop over j of InitializeBoard: n draws from draw c on.
InitRow(w, alive, c, n, grid, pix) ==
    IF Evaluated(<<grid, pix>>) /\ n = 0 THEN [grid |-> grid, pix |-> pix]
    ELSE IF c \in alive
         THEN InitRow(w, alive, c + 1, n - 1,
                      InitAlive(w, grid, DrawRow(w, c), DrawCol(w, c)),
                      setPixel(pix, w, DrawCol(w, c) - 1, DrawRow(w, c) - 1, FALSE))
         ELSE InitRow(w, alive, c + 1, n - 1, grid, pix)

RECURSIVE InitLoop(_, _, _, _, _, _)
\* The double loop of InitializeBoard from draw c on, c the first draw of a
\* row; alive holds the draws that come out below the density threshold.
InitLoop(w, h, alive, c, grid, pix) ==
    IF Evaluated(<<grid, pix>>) /\ c >= w * h THEN [grid |-> grid, pix |-> pix]
    ELSE LET st == InitRow(w, alive, c, w, grid, pix)
         IN  InitLoop(w, h, alive, c + w, st.grid, st.pix)

\* InitializeBoard without its loop that makes all pixels black.
BlackLoopSkipped(w, h, c, pix) == pix

RECURSIVE BlackRow(_, _, _, _)
\* The loop over j of "Make all pixels black initially", in row i, from j on.
BlackRow(w, i, j, pix) ==
    IF Evaluated(pix) /\ j >= w THEN pix
    ELSE BlackRow(w, i, j + 1, setPixel(pix, w, j, i, TRUE))

RECURSIVE BlackLoop(_, _, _, _)
\* "Make all pixels black initially": the loop over i, from row c on.
BlackLoop(w, h, c, pix) ==
    IF Evaluated(pix) /\ c >= h THEN pix
    ELSE BlackLoop(w, h, c + 1, BlackRow(w, c, 0, pix))

InitializeBoard(w, h, alive) ==
    InitLoop(w, h, alive, 0,
             [k \in 0..((w + 2) * (h + 2) - 1) |-> 0],
             BlackLoop(w, h, 0, [k \in 0..(4 * w * h - 1) |-> 0]))

\* The outcomes of the w*h draws that are explored, as the set of draws that
\* come out alive: none (density 0), all (density 100), and on the boards up to
\* MaxGridY rows those within a window of MaxSpan consecutive draws.
DrawOutcomes(w, h) ==
    { {}, 0..(w * h - 1) }
    \cup (IF h > MaxGridY THEN {}
          ELSE UNION { SUBSET { c \in s..(s + MaxSpan - 1) : c < w * h } :
                       s \in 0..(w * h - 1) })

\* The boards <<gridX, gridY>> that are explored.
Boards ==
    { b \in (1..MaxGridX) \X (1..MaxGridY) : b[1] * b[2] <= MaxCells }
    \cup ({1} \X ((MaxGridY + 1)..MaxStripY))

\* -------------------------------------------------------- random source

\* r before InitializeState: the nil pointer.
NilSource == -1

\* rand.New(rand.NewSource(seed)).  The generator of math/rand is not part of
\* the repository: a linear congruential generator stands for it, its state an
\* integer.
NewSource(seed) == seed % 100003

\* The state of the source after one more draw.
RandNext(x) == (x * 263 + 71) % 100003

\* The value r.Int63n(n) returns on the draw that leaves the source in state x.
Int63n(x, n) == x % n

\* int(r.Int63n(100000)) < int(1000*g.avgStartingLiveCellPercentage), the
\* percentage pct in tenths of a percent.
DrawAlive(v, pct) == v < 100 * pct

RECURSIVE DrawLoop(_, _, _, _, _)
\* The n draws of InitializeBoard from draw c on, the source in state x: the
\* draws that come out alive and the state the source is left in.
DrawLoop(x, n, c, pct, alive) ==
    IF Evaluated(<<x, alive>>) /\ c >= n THEN [alive |-> alive, r |-> x]
    ELSE DrawLoop(RandNext(x), n, c + 1, pct,
                  IF DrawAlive(Int63n(RandNext(x), DrawRange), pct)
                  THEN alive \cup {c} ELSE alive)

\* ----------------------------------------------------------------- UI

intMin(a, b) == IF a < b THEN a ELSE b

clamp(min, max, a) == IF a < min THEN min ELSE IF a > max THEN max ELSE a

\* ui.possibleScaleFactors as ui.initialize builds it: the integers that
\* divide both the screen width and the screen height, in increasing order.
possibleScaleFactors ==
    LET x == ScreenSizeInFullscreen[1]
        y == ScreenSizeInFullscreen[2]
        divs == { i \in 1..intMin(x, y) : x % i = 0 /\ y % i = 0 }
    IN  [k \in 1..Cardinality(divs) |->
            CHOOSE i \in divs : Cardinality({ j \in divs : j < i }) = k - 1]

\* ui.getScaleFactor(): the slice is indexed from 0.
getScaleFactor(u) == possibleScaleFactors[u.scaleFactorIndex + 1]

\* int(ui.getSpeedup()) for speed >= 0, int(1/ui.getSpeedup()) for speed < 0.
getSpeedup(u) == IF u.speed >= 0 THEN Pow2(u.speed) ELSE Pow2(-u.speed)

\* The keys of the number row, ebiten.Key0 to ebiten.Key8, with their digit.
NumberKeys ==
    { <<"Key0", 0>>, <<"Key1", 1>>, <<"Key2", 2>>, <<"Key3", 3>>, <<"Key4", 4>>,
      <<"Key5", 5>>, <<"Key6", 6>>, <<"Key7", 7>>, <<"Key8", 8>> }

\* handleNumberKeys: every digit whose key was just pressed is toggled in the
\* rule set being changed.
handleNumberKeys(u, keys) ==
    LET toggle(rs) == [d \in 0..(RuleLen - 1) |->
                         IF \E nk \in NumberKeys : nk[1] \in keys /\ nk[2] = d
                         THEN ~rs[d] ELSE rs[d]]
    IN  IF u.rulesBeingChanged = "B"
        THEN [u EXCEPT !.selectedBRules = toggle(@)]
        ELSE [u EXCEPT !.selectedSRules = toggle(@)]

\* handleInput without its clamp of the live cell percentage.
handleInputNoDensityClamp(u, keys, isGamePaused) ==
    LET u1 == [u EXCEPT !.speed = @ - (IF "ArrowLeft" \in keys THEN 1 ELSE 0)]
        u2 == [u1 EXCEPT !.speed = @ + (IF "ArrowRight" \in keys THEN 1 ELSE 0)]
        u3 == IF "Tab" \in keys
              THEN [u2 EXCEPT !.rulesBeingChanged = IF @ = "B" THEN "S" ELSE "B"]
              ELSE u2
        u4 == IF "C" \in keys
              THEN IF u3.rulesBeingChanged = "B"
                   THEN [u3 EXCEPT !.selectedBRules = Ruleset({})]
                   ELSE [u3 EXCEPT !.selectedSRules = Ruleset({})]
              ELSE u3
        delta == IF "Shift" \in keys THEN 10 ELSE IF "Control" \in keys THEN 1 ELSE 100
        u5 == IF "Equal" \in keys THEN [u4 EXCEPT !.selectedLiveCellPercent = @ + delta]
              ELSE IF "Minus" \in keys THEN [u4 EXCEPT !.selectedLiveCellPercent = @ - delta]
              ELSE u4
        u6 == IF "BracketRight" \in keys THEN [u5 EXCEPT !.scaleFactorIndex = @ + 1]
              ELSE IF "BracketLeft" \in keys THEN [u5 EXCEPT !.scaleFactorIndex = @ - 1]
              ELSE u5
        u7 == handleNumberKeys(u6, keys)
    IN  IF ~isGamePaused THEN u2
        ELSE [u7 EXCEPT !.scaleFactorIndex = clamp(0, Len(possibleScaleFactors) - 1, @)]

\* ui.handleInput(isGamePaused) with the keys of this frame; the live cell
\* percentage is kept in tenths of a percent.
handleInput(u, keys, isGamePaused) ==
    LET u1 == [u EXCEPT !.speed = @ - (IF "ArrowLeft" \in keys THEN 1 ELSE 0)]
        u2 == [u1 EXCEPT !.speed = @ + (IF "ArrowRight" \in keys THEN 1 ELSE 0)]
        u3 == IF "Tab" \in keys
              THEN [u2 EXCEPT !.rulesBeingChanged = IF @ = "B" THEN "S" ELSE "B"]
              ELSE u2
        u4 == IF "C" \in keys
              THEN IF u3.rulesBeingChanged = "B"
                   THEN [u3 EXCEPT !.selectedBRules = Ruleset({})]
                   ELSE [u3 EXCEPT !.selectedSRules = Ruleset({})]
              ELSE u3
        delta == IF "Shift" \in keys THEN 10 ELSE IF "Control" \in keys THEN 1 ELSE 100
        u5 == IF "Equal" \in keys THEN [u4 EXCEPT !.selectedLiveCellPercent = @ + delta]
              ELSE IF "Minus" \in keys THEN [u4 EXCEPT !.selectedLiveCellPercent = @ - delta]
              ELSE u4
        u6 == IF "BracketRight" \in keys THEN [u5 EXCEPT !.scaleFactorIndex = @ + 1]
              ELSE IF "BracketLeft" \in keys THEN [u5 EXCEPT !.scaleFactorIndex = @ - 1]
              ELSE u5
        u7 == handleNumberKeys(u6, keys)
    IN  IF ~isGamePaused THEN u2
        ELSE [u7 EXCEPT !.selectedLiveCellPercent = clamp(0, 1000, @),
                        !.scaleFactorIndex = clamp(0, Len(possibleScaleFactors) - 1, @)]

\* ui.initialize(BRules, SRules, liveCellPercent, initialScaleIndex).
initialize(b, s, liveCellPercent, initialScaleIndex) ==
    [speed |-> 0, selectedBRules |-> b, selectedSRules |-> s, rulesBeingChanged |-> "B",
     selectedLiveCellPercent |-> liveCellPercent, scaleFactorIndex |-> initialScaleIndex]

\* The sets of keys pressed in one frame that are explored: those that drive
\* the simulation, and those that edit the rules in the pause menu.
SpeedInputs == { {}, {"R"}, {"Space"}, {"ArrowLeft"}, {"ArrowRight"} }
MenuInputs == { {}, {"R"}, {"Space"}, {"Key0"}, {"Tab"} }
KeyInputs ==
    { {"R"}, {"BracketRight"}, {"BracketLeft"}, {"Key0"},
      {"Equal"}, {"Minus"}, {"Equal", "Shift"}, {"Minus", "Shift"},
      {"Equal", "Control"}, {"Minus", "Control"} }

\* The live cell percentages (in tenths) from which key presses are explored.
Densities ==
    { d \in 0..1000 : \/ d % 100 = 0
                      \/ d <= MaxEdge \/ d >= 1000 - MaxEdge
                      \/ (d % 10 = 0 /\ (d <= 10 * MaxEdge \/ d >= 1000 - 10 * MaxEdge)) }

\* Update is not running.
NoUpdate == [at |-> "out", todo |-> 0, toggle |-> FALSE, base |-> 0]

\* No updateBoardAlt call is running.
NoAlt == [added |-> 0, sent |-> 0, calls |-> 0]

\* A GifSaver as newGifSaver returns it: no frames; name stands for the
\* file name, made of the time of the call and the rules.
newGifSaver(name) == [fileName |-> name, frames |-> << >>]

\* A Game that has not recorded: isSaving false, the zero GifSaver, no writer.
NoRec ==
    [isSaving |-> FALSE, gifSaver |-> newGifSaver(0), writers |-> << >>,
     drawn |-> TRUE, made |-> 0, start |-> << >>, files |-> << >>]

\* No divide-and-conquer Update is running.
NoDivide == [at |-> "idle", base |-> 0, wg |-> 0, calls |-> << >>, processed |-> << >>]

\* The n goroutines g.worker() as InitializeState starts them: each waits for
\* a task on the channel.
IdleWorkers(n) == [w \in 1..n |-> [at |-> "idle", task |-> 0]]

\* ------------------------------------------------------------ kernel

\* The kernel with "+= 2" on the cell itself too.
KernelDeltaUniform(a, b) == 2

\* What the kernel adds to the slot at offset (a, b) from a cell that becomes
\* alive; a cell that dies subtracts it.
KernelDelta(a, b) == IF a = 0 /\ b = 0 THEN 1 ELSE 2

\* The 3x3 block of slots the kernel writes for the cell (i, j).
KernelSlots(w, i, j) == { Idx(w, i + a, j + b) : a \in -1..1, b \in -1..1 }

\* The kernel with "+=" where a cell dies too.
KernelWriteAlwaysAdds(w, buf, i, j, sign) ==
    LET b1 == AddAt(buf, Idx(w, i - 1, j - 1), KernelDelta(-1, -1))
        b2 == AddAt(b1, Idx(w, i - 1, j), KernelDelta(-1, 0))
        b3 == AddAt(b2, Idx(w, i - 1, j + 1), KernelDelta(-1, 1))
        b4 == AddAt(b3, Idx(w, i, j - 1), KernelDelta(0, -1))
        b5 == AddAt(b4, Idx(w, i, j), KernelDelta(0, 0))
        b6 == AddAt(b5, Idx(w, i, j + 1), KernelDelta(0, 1))
        b7 == AddAt(b6, Idx(w, i + 1, j - 1), KernelDelta(1, -1))
        b8 == AddAt(b7, Idx(w, i + 1, j), KernelDelta(1, 0))
    IN  AddAt(b8, Idx(w, i + 1, j + 1), KernelDelta(1, 1))

\* The kernel with a bounds check: it leaves the border cells alone.
KernelWriteInsideOnly(w, buf, i, j, sign) ==
    [k \in DOMAIN buf |->
        LET a == k \div (w + 2)
            b == k % (w + 2)
        IN  IF a \in (i - 1)..(i + 1) /\ b \in (j - 1)..(j + 1)
               /\ a >= 1 /\ a <= gridY /\ b >= 1 /\ b <= w
            THEN Int8(buf[k] + sign * KernelDelta(a - i, b - j))
            ELSE buf[k]]

\* buffer after the nine "+=" (sign 1) or "-=" (sign -1) of the cell (i, j).
KernelWrite(w, buf, i, j, sign) ==
    LET b1 == AddAt(buf, Idx(w, i - 1, j - 1), sign * KernelDelta(-1, -1))
        b2 == AddAt(b1, Idx(w, i - 1, j), sign * KernelDelta(-1, 0))
        b3 == AddAt(b2, Idx(w, i - 1, j + 1), sign * KernelDelta(-1, 1))
        b4 == AddAt(b3, Idx(w, i, j - 1), sign * KernelDelta(0, -1))
        b5 == AddAt(b4, Idx(w, i, j), sign * KernelDelta(0, 0))
        b6 == AddAt(b5, Idx(w, i, j + 1), sign * KernelDelta(0, 1))
        b7 == AddAt(b6, Idx(w, i + 1, j - 1), sign * KernelDelta(1, -1))
        b8 == AddAt(b7, Idx(w, i + 1, j), sign * KernelDelta(1, 0))
    IN  AddAt(b8, Idx(w, i + 1, j + 1), sign * KernelDelta(1, 1))

\* A table lookup becomesAliveTable[val] is in range.
InTable(val) == val >= 0 /\ val < TableLen

\* The kernel with val read from the buffer it writes.
KernelCellReadsBuffer(st, i, j) ==
    LET val == st.buf[Idx(gridX, i, j)]
    IN  IF InTable(val) /\ becomesAliveTable[val]
        THEN [buf |-> KernelWrite(gridX, st.buf, i, j, 1),
              pix |-> setPixel(st.pix, gridX, j - 1, i - 1, FALSE)]
        ELSE IF InTable(val) /\ becomesDeadTable[val]
        THEN [buf |-> KernelWrite(gridX, st.buf, i, j, -1),
              pix |-> setPixel(st.pix, gridX, j - 1, i - 1, TRUE)]
        ELSE st

\* One iteration of the inner loop of updateRange, on the cell (i, j).
KernelCell(st, i, j) ==
    LET val == worldGrid[Idx(gridX, i, j)]
    IN  IF becomesAliveTable[val]
        THEN [buf |-> KernelWrite(gridX, st.buf, i, j, 1),
              pix |-> setPixel(st.pix, gridX, j - 1, i - 1, FALSE)]
        ELSE IF becomesDeadTable[val]
        THEN [buf |-> KernelWrite(gridX, st.buf, i, j, -1),
              pix |-> setPixel(st.pix, gridX, j - 1, i - 1, TRUE)]
        ELSE st

RECURSIVE KernelRowShort(_, _, _)
\* The inner loop of updateRange with "j < g.gridX" for "j <= g.gridX".
KernelRowShort(st, i, j) ==
    IF Evaluated(st) /\ j >= gridX THEN st ELSE KernelRowShort(KernelCell(st, i, j), i, j + 1)

RECURSIVE KernelRow(_, _, _)
\* The inner loop of updateRange on row i, from column j on.
KernelRow(st, i, j) ==
    IF Evaluated(st) /\ j > gridX THEN st ELSE KernelRow(KernelCell(st, i, j), i, j + 1)

RECURSIVE updateRange(_, _, _)
\* updateRange(minY, maxY), run to its end on st.
updateRange(st, minY, maxY) ==
    IF Evaluated(st) /\ minY > maxY THEN st ELSE updateRange(KernelRow(st, minY, 1), minY + 1, maxY)

\* ------------------------------------------------------------ partition

\* The cap of numParts with ranges of 2 rows allowed.
NumPartsTwoRows(pool, h) == IF pool > h \div 2 THEN h \div 2 ELSE pool

\* updateBoard: numParts, capped on small boards.
NumParts(pool, h) == IF pool > h \div MinRowsPerPart THEN h \div MinRowsPerPart ELSE pool

\* maxY without the case of the last part, which takes the remaining rows.
PartMaxYNoRemainder(i, n, rpp, h) == 1 + i * rpp + rpp - 1

\* minY and maxY of part i (0-based) in the first loop of updateBoard.
PartMinY(i, rpp) == 1 + i * rpp
PartMaxY(i, n, rpp, h) == IF i = n - 1 THEN h ELSE PartMinY(i, rpp) + rpp - 1

Task(phase, minY, maxY) ==
    [phase |-> phase, minY |-> minY, maxY |-> maxY, row |-> minY, done |-> FALSE]

\* The interior pass on the whole of each range, its two boundary rows too.
InteriorTasksWholeRange(n, rpp, h) ==
    [i \in 1..n |-> [phase |-> "interior", minY |-> 1 + (i - 1) * rpp,
                     maxY |-> IF i = n THEN h ELSE (i - 1) * rpp + rpp,
                     row |-> 1 + (i - 1) * rpp, done |-> FALSE]]

\* The goroutines of the interior pass, in the order they are started.
InteriorTasks(n, rpp, h) ==
    [i \in 1..n |-> Task("interior", PartMinY(i - 1, rpp) + 1, PartMaxY(i - 1, n, rpp, h) - 1)]

\* The border pass with one-row seam bands [minY, minY].
BorderTasksOneRowSeam(n, rpp, h) ==
    << [phase |-> "border", minY |-> 1, maxY |-> 1, row |-> 1, done |-> FALSE],
       [phase |-> "border", minY |-> h, maxY |-> h, row |-> h, done |-> FALSE] >>
    \o [i \in 1..(n - 1) |->
          [phase |-> "border", minY |-> 1 + i * rpp, maxY |-> 1 + i * rpp,
           row |-> 1 + i * rpp, done |-> FALSE]]

\* The goroutines of the border pass, in the order they are started.
BorderTasks(n, rpp, h) ==
    << Task("border", 1, 1), Task("border", h, h) >>
    \o [i \in 1..(n - 1) |-> Task("border", PartMinY(i, rpp) - 1, PartMinY(i, rpp))]

\* updateBoard without its wg.Wait() calls.
WaitSkipped == TRUE

\* wg.Wait() returns.
WaitReturns == wg = 0

\* --------------------------------------------------------------- Init

Init ==
    /\ \E b \in Boards :
         /\ gridX = b[1]
         /\ gridY = b[2]
         /\ \E alive \in DrawOutcomes(b[1], b[2]) :
              LET st == InitializeBoard(b[1], b[2], alive)
              IN  /\ worldGrid = st.grid
                  /\ pixels = st.pix
         /\ buffer = [k \in 0..((b[1] + 2) * (b[2] + 2) - 1) |-> 0]
    \* Of the pool sizes that give a board the same numParts the smallest
    \* is explored: POOL_SIZE is read by updateBoard for numParts only.
    /\ \E e \in 0..MaxPoolShift :
         /\ POOL_SIZE = Pow2(e)
         /\ e > 0 => NumParts(Pow2(e), gridY) # NumParts(Pow2(e - 1), gridY)
    /\ \E rs \in RuleSets :
         /\ bRules = Ruleset(rs[1])
         /\ sRules = Ruleset(rs[2])
         /\ becomesAliveTable = updateTablesAlive(Ruleset(rs[1]))
         /\ becomesDeadTable = updateTablesDead(Ruleset(rs[2]))
    /\ pc = "idle"
    /\ numParts = 0
    /\ rowsPerPart = 0
    /\ tasks = << >>
    /\ wg = 0
    /\ boardUpdates = 0
    \* The draws of InitializeBoard are those of DrawOutcomes: r is left as
    \* InitializeState seeds it.
    /\ r = NewSource(SEED)
    /\ scaleFactor = 1
    /\ avgStartingLiveCellPercentage = 500
    /\ isPaused = FALSE
    /\ updateCount = 0
    /\ ui = initialize(bRules, sRules, 500, 0)
    /\ upd = NoUpdate
    /\ runs = 1
    /\ grid0 = [gridX |-> gridX, gridY |-> gridY, pct |-> 500, grid |-> worldGrid,
                pix |-> pixels]
    /\ frames = << >>
    /\ screen = <<gridX, gridY>>
    /\ rec = NoRec
    /\ dc = NoDivide
    /\ taskChannel = << >>
    /\ workers = IdleWorkers(POOL_SIZE)
    /\ alt = NoAlt

\* ------------------------------------------------------------ actions

\* updateBoard without copy(g.buffer, g.worldGrid).
UpdateBoardStartNoSnapshot ==
    /\ pc = "idle"
    /\ buffer' = buffer
    /\ numParts' = NumParts(POOL_SIZE, gridY)
    /\ IF numParts' = 0
       THEN /\ pc' = "panic"
            /\ UNCHANGED <<rowsPerPart, tasks, wg>>
       ELSE /\ rowsPerPart' = gridY \div numParts'
            /\ tasks' = InteriorTasks(numParts', rowsPerPart', gridY)
            /\ wg' = wg + numParts'
            /\ pc' = "interior"
    /\ UNCHANGED <<gridX, gridY, POOL_SIZE, bRules, sRules, becomesAliveTable,
                   becomesDeadTable, worldGrid, pixels, boardUpdates>>

\* updateBoard up to its first wg.Wait(): the snapshot, the partition and the
\* start of the interior pass.  numParts = 0 makes g.gridY / numParts panic.
UpdateBoardStart ==
    /\ pc = "idle"
    /\ buffer' = worldGrid
    /\ numParts' = NumParts(POOL_SIZE, gridY)
    /\ IF numParts' = 0
       THEN /\ pc' = "panic"
            /\ UNCHANGED <<rowsPerPart, tasks, wg>>
       ELSE /\ rowsPerPart' = gridY \div numParts'
            /\ tasks' = InteriorTasks(numParts', rowsPerPart', gridY)
            /\ wg' = wg + numParts'
            /\ pc' = "interior"
    /\ UNCHANGED <<gridX, gridY, POOL_SIZE, bRules, sRules, becomesAliveTable,
                   becomesDeadTable, worldGrid, pixels, boardUpdates>>

\* The kernel updating the board in place: its writes go to worldGrid too.
TaskStepInPlace(k) ==
    /\ pc \in {"interior", "border"}
    /\ k \in DOMAIN tasks
    /\ ~tasks[k].done
    /\ LET t == tasks[k]
           more == t.row <= t.maxY
           st == IF more
                 THEN KernelRow([buf |-> buffer, pix |-> pixels], t.row, 1)
                 ELSE [buf |-> buffer, pix |-> pixels]
           next == IF more THEN t.row + 1 ELSE t.row
           ok == ~more \/ \A j \in 1..gridX : InTable(worldGrid[Idx(gridX, t.row, j)])
       IN  IF ok
           THEN /\ buffer' = st.buf
                /\ worldGrid' = st.buf
                /\ pixels' = st.pix
                /\ tasks' = [tasks EXCEPT ![k].row = next, ![k].done = next > t.maxY]
                /\ wg' = IF next > t.maxY THEN wg - 1 ELSE wg
                /\ pc' = pc
           ELSE /\ pc' = "panic"
                /\ UNCHANGED <<buffer, pixels, tasks, wg, worldGrid>>
    /\ UNCHANGED <<gridX, gridY, POOL_SIZE, bRules, sRules, becomesAliveTable,
                   becomesDeadTable, numParts, rowsPerPart, boardUpdates>>

\* One row of the goroutine tasks[k]; wg.Done() follows its last row.
TaskStep(k) ==
    /\ pc \in {"interior", "border"}
    /\ k \in DOMAIN tasks
    /\ ~tasks[k].done
    /\ LET t == tasks[k]
           more == t.row <= t.maxY
           next == IF more THEN t.row + 1 ELSE t.row
           ok == ~more \/ \A j \in 1..gridX : InTable(worldGrid[Idx(gridX, t.row, j)])
       IN  IF ok
           THEN \E st \in { IF more
                            THEN KernelRow([buf |-> buffer, pix |-> pixels], t.row, 1)
                            ELSE [buf |-> buffer, pix |-> pixels] } :
                /\ buffer' = st.buf
                /\ pixels' = st.pix
                /\ tasks' = [tasks EXCEPT ![k].row = next, ![k].done = next > t.maxY]
                /\ wg' = IF next > t.maxY THEN wg - 1 ELSE wg
                /\ pc' = pc
           ELSE /\ pc' = "panic"
                /\ UNCHANGED <<buffer, pixels, tasks, wg>>
    /\ UNCHANGED <<gridX, gridY, POOL_SIZE, bRules, sRules, becomesAliveTable,
                   becomesDeadTable, worldGrid, numParts, rowsPerPart, boardUpdates>>

\* updateBoard from the return of its first wg.Wait() to its second: the
\* start of the border pass.
BorderPassStart ==
    /\ pc = "interior"
    /\ WaitReturns
    /\ tasks' = tasks \o BorderTasks(numParts, rowsPerPart, gridY)
    /\ wg' = wg + 2 + (numParts - 1)
    /\ pc' = "border"
    /\ UNCHANGED <<gridX, gridY, POOL_SIZE, bRules, sRules, becomesAliveTable,
                   becomesDeadTable, worldGrid, buffer, pixels, numParts,
                   rowsPerPart, boardUpdates>>

\* updateBoard without copy(g.worldGrid, g.buffer).
CommitNoCopy ==
    /\ pc = "border"
    /\ WaitReturns
    /\ worldGrid' = worldGrid
    /\ boardUpdates' = boardUpdates + 1
    /\ tasks' = << >>
    /\ pc' = "idle"
    /\ UNCHANGED <<gridX, gridY, POOL_SIZE, bRules, sRules, becomesAliveTable,
                   becomesDeadTable, buffer, pixels, numParts, rowsPerPart, wg>>

\* updateBoard from the return of its second wg.Wait() to its end: the commit.
Commit ==
    /\ pc = "border"
    /\ WaitReturns
    /\ worldGrid' = buffer
    /\ boardUpdates' = boardUpdates + 1
    /\ tasks' = << >>
    /\ pc' = "idle"
    /\ UNCHANGED <<gridX, gridY, POOL_SIZE, bRules, sRules, becomesAliveTable,
                   becomesDeadTable, buffer, pixels, numParts, rowsPerPart, wg>>

\* updateBoard called again and again on one board, as BenchmarkUpdate calls
\* it, at most MaxGen times.
Next ==
    \/ boardUpdates < MaxGen /\ UpdateBoardStart /\ UNCHANGED updateVars
    \/ (\E k \in DOMAIN tasks : TaskStep(k)) /\ UNCHANGED updateVars
    \/ BorderPassStart /\ UNCHANGED updateVars
    \/ Commit /\ UNCHANGED updateVars

Spec == Init /\ [][Next]_vars

\* ---------------------------------------------------------- scenarios

\* The draws that come out alive on a board of w x h cells at the percentage
\* pct, r as InitializeState seeds it.
Drawn(w, h, pct) == DrawLoop(NewSource(SEED), w * h, 0, pct, {}).alive

\* The draw of the cell (i, j) of a board of width w.
DrawOf(w, i, j) == (i - 1) * w + (j - 1)

\* The boards of the scenarios, each with its percentage, the draws that came
\* out alive and its rules: the blinker on 5x5 (rows and columns counted from
\* 1 and from 0), 2x2 blocks (in the middle, in a corner, across the seam of
\* two ranges), boards at 0 percent and boards at 100 percent.
Scenarios ==
    { [w |-> 5, h |-> 5, pct |-> 500, rules |-> <<{3}, {2, 3}>>,
       alive |-> { DrawOf(5, 2 + d, j) : j \in (2 + d)..(4 + d) }] : d \in {0, 1} }
    \cup { [w |-> 4, h |-> 4, pct |-> 500, rules |-> <<{3}, {2, 3}>>,
            alive |-> { DrawOf(4, i, j) : i \in a..(a + 1), j \in a..(a + 1) }] : a \in {1, 2} }
    \cup { [w |-> 3, h |-> 8, pct |-> 500, rules |-> <<{3}, {2, 3}>>,
            alive |-> { DrawOf(3, i, j) : i \in 4..5, j \in 1..2 }],
           [w |-> 2, h |-> 2, pct |-> 500, rules |-> <<{3}, {2, 3}>>,
            alive |-> { DrawOf(2, i, j) : i \in 1..2, j \in 1..2 }] }
    \cup { [w |-> 4, h |-> 4, pct |-> 0, rules |-> rs, alive |-> Drawn(4, 4, 0)] :
            rs \in RuleSets }
    \cup { [w |-> 4, h |-> 8, pct |-> 0, rules |-> <<{3}, {2, 3}>>,
            alive |-> Drawn(4, 8, 0)] }
    \cup { [w |-> b[1], h |-> b[2], pct |-> 1000, rules |-> <<{3}, {2, 3}>>,
            alive |-> Drawn(b[1], b[2], 1000)] :
            b \in { <<2, 2>>, <<1, 5>>, <<3, 4>>, <<4, 4>>, <<2, 8>> } }

\* A Game on one of the boards scs with one of the pool sizes pools,
\* InitializeBoard done.
InitOnBoards(scs, pools) ==
    /\ \E sc \in scs :
         LET st == InitializeBoard(sc.w, sc.h, sc.alive)
         IN  /\ gridX = sc.w
             /\ gridY = sc.h
             /\ worldGrid = st.grid
             /\ pixels = st.pix
             /\ buffer = [k \in DOMAIN st.grid |-> 0]
             /\ bRules = Ruleset(sc.rules[1])
             /\ sRules = Ruleset(sc.rules[2])
             /\ becomesAliveTable = updateTablesAlive(Ruleset(sc.rules[1]))
             /\ becomesDeadTable = updateTablesDead(Ruleset(sc.rules[2]))
             /\ avgStartingLiveCellPercentage = sc.pct
             /\ ui = initialize(Ruleset(sc.rules[1]), Ruleset(sc.rules[2]), sc.pct, 0)
             /\ grid0 = [gridX |-> sc.w, gridY |-> sc.h, pct |-> sc.pct,
                         grid |-> st.grid, pix |-> st.pix]
    /\ POOL_SIZE \in pools
    /\ pc = "idle"
    /\ numParts = 0
    /\ rowsPerPart = 0
    /\ tasks = << >>
    /\ wg = 0
    /\ boardUpdates = 0
    /\ r = NewSource(SEED)
    /\ scaleFactor = 1
    /\ isPaused = FALSE
    /\ updateCount = 0
    /\ upd = NoUpdate
    /\ runs = 1
    /\ frames = << >>
    /\ screen = <<gridX, gridY>>
    /\ rec = NoRec
    /\ dc = NoDivide
    /\ taskChannel = << >>
    /\ workers = IdleWorkers(POOL_SIZE)
    /\ alt = NoAlt

\* A Game on the board of a scenario, InitializeBoard done.
InitScenario == InitOnBoards(Scenarios, { Pow2(e) : e \in 0..MaxPoolShift })

\* updateBoard called again and again on the board of a scenario, at most
\* MaxScenarioGen times.
NextScenario ==
    \/ boardUpdates < MaxScenarioGen /\ UpdateBoardStart /\ UNCHANGED updateVars
    \/ (\E k \in DOMAIN tasks : TaskStep(k)) /\ UNCHANGED updateVars
    \/ BorderPassStart /\ UNCHANGED updateVars
    \/ Commit /\ UNCHANGED updateVars

SpecScenario == InitScenario /\ [][NextScenario]_vars

\* ------------------------------------------------------------ glider

\* The side of the board of the glider.
GliderBoard == 40

\* The four phases of the glider that moves by (+1, +1), as offsets (row,
\* column) from the corner of its 3x3 box; phases 2 and 3 lie in the box one
\* row lower, phase 3 also one column further.
GliderPhases ==
    << { <<0, 1>>, <<1, 2>>, <<2, 0>>, <<2, 1>>, <<2, 2>> },
       { <<1, 0>>, <<1, 2>>, <<2, 1>>, <<2, 2>>, <<3, 1>> },
       { <<1, 2>>, <<2, 0>>, <<2, 2>>, <<3, 1>>, <<3, 2>> },
       { <<1, 1>>, <<2, 2>>, <<2, 3>>, <<3, 1>>, <<3, 2>> } >>

\* The cell of the corner of the box of the glider at the centre of the board.
GliderCorner == GliderBoard \div 2 - 1

\* The glider at the centre of the board, in each of its phases.
GliderScenarios ==
    { [w |-> GliderBoard, h |-> GliderBoard, pct |-> 500, rules |-> <<{3}, {2, 3}>>,
       alive |-> { DrawOf(GliderBoard, GliderCorner + c[1], GliderCorner + c[2]) :
                   c \in GliderPhases[p] }] : p \in 1..4 }

\* A Game on the board of the glider, InitializeBoard done, POOL_SIZE = 1.
InitGlider == InitOnBoards(GliderScenarios, {1})

\* updateBoard called again and again on the board of the glider.
NextGlider ==
    \/ boardUpdates < MaxGliderGen /\ UpdateBoardStart /\ UNCHANGED updateVars
    \/ (\E k \in DOMAIN tasks : TaskStep(k)) /\ UNCHANGED updateVars
    \/ BorderPassStart /\ UNCHANGED updateVars
    \/ Commit /\ UNCHANGED updateVars

SpecGlider == InitGlider /\ [][NextGlider]_vars

\* ------------------------------------------- Update, restart, NewGame

\* The board InitializeBoard makes on the screen at scale factor sf with the
\* percentage pct, the source in state x: the grid, the pixels and the state
\* the source is left in.
InitializeBoardFrom(x, sf, pct) ==
    LET w == ScreenSizeInFullscreen[1] \div sf
        h == ScreenSizeInFullscreen[2] \div sf
        d == DrawLoop(x, w * h, 0, pct, {})
        st == InitializeBoard(w, h, d.alive)
    IN  [gridX |-> w, gridY |-> h, grid |-> st.grid, pix |-> st.pix, r |-> d.r]

\* InitializeState with "if r == nil" before it seeds r.
SeededSourceOnce == IF r = NilSource THEN NewSource(SEED) ELSE r

\* The source InitializeState leaves in r.
SeededSource == NewSource(SEED)

\* Update called while the Update call before it is still running.
UpdateMayStartMidTick == pc # "panic" /\ upd.at # "terminated"

\* ebiten.RunGame calls Update from one goroutine, one call after the other,
\* and updateBoard returns to Update only from its end: a call of Update
\* starts when none is running.
UpdateMayStart == upd.at = "out" /\ pc = "idle"

\* Before main: r is nil and there is no Game.
InitGameOn(screens) ==
    /\ screen \in screens
    /\ rec = NoRec
    /\ dc = NoDivide
    /\ taskChannel = << >>
    /\ workers = << >>
    /\ alt = NoAlt
    /\ gridX = 0 /\ gridY = 0
    /\ POOL_SIZE = NumCPU * 2
    /\ bRules = Ruleset({}) /\ sRules = Ruleset({})
    /\ becomesAliveTable = [v \in 0..(TableLen - 1) |-> FALSE]
    /\ becomesDeadTable = [v \in 0..(TableLen - 1) |-> FALSE]
    /\ worldGrid = << >> /\ buffer = << >> /\ pixels = << >>
    /\ pc = "idle"
    /\ numParts = 0 /\ rowsPerPart = 0
    /\ tasks = << >>
    /\ wg = 0
    /\ boardUpdates = 0
    /\ r = NilSource
    /\ scaleFactor = 0
    /\ avgStartingLiveCellPercentage = 0
    /\ isPaused = FALSE
    /\ updateCount = 0
    /\ ui = initialize(Ruleset({}), Ruleset({}), 0, 0)
    /\ upd = NoUpdate
    /\ runs = 0
    /\ grid0 = [gridX |-> 0, gridY |-> 0, pct |-> 0, grid |-> << >>, pix |-> << >>]
    /\ frames = << >>

\* The zero Game on the default screen.
InitUpdate == InitGameOn({DefaultScreen})

\* g := &Game{}; g.InitializeState(); g.InitializeBoard(), as main and the
\* benchmarks do: the package variables r is reseeded, boardUpdates and
\* POOL_SIZE stay.
NewGame ==
    /\ UpdateMayStart
    /\ runs < MaxRuns
    /\ LET b == Ruleset({3})
           s == Ruleset({2, 3})
           u == initialize(b, s, 500, 1)
           st == InitializeBoardFrom(SeededSource, getScaleFactor(u), 500)
       IN  /\ bRules' = b
           /\ sRules' = s
           /\ becomesAliveTable' = updateTablesAlive(b)
           /\ becomesDeadTable' = updateTablesDead(s)
           /\ avgStartingLiveCellPercentage' = 500
           /\ isPaused' = TRUE
           /\ ui' = u
           /\ IF u.scaleFactorIndex < Len(possibleScaleFactors)
              THEN /\ scaleFactor' = getScaleFactor(u)
                   /\ gridX' = st.gridX
                   /\ gridY' = st.gridY
                   /\ worldGrid' = st.grid
                   /\ buffer' = [k \in DOMAIN st.grid |-> 0]
                   /\ pixels' = st.pix
                   /\ r' = st.r
                   /\ grid0' = IF runs = 0
                               THEN [gridX |-> st.gridX, gridY |-> st.gridY, pct |-> 500,
                                     grid |-> st.grid, pix |-> st.pix]
                               ELSE grid0
                   /\ taskChannel' = << >>
                   /\ workers' = IdleWorkers(POOL_SIZE)
                   /\ runs' = runs + 1
                   /\ pc' = pc
              \* g.ui.getScaleFactor() in InitializeState indexes the slice
              \* out of range: the program panics there.
              ELSE /\ r' = SeededSource
                   /\ pc' = "panic"
                   /\ UNCHANGED <<scaleFactor, gridX, gridY, worldGrid, buffer, pixels,
                                  grid0, taskChannel, workers, runs>>
    /\ updateCount' = 0
    /\ numParts' = 0 /\ rowsPerPart' = 0
    /\ tasks' = << >>
    /\ wg' = 0
    /\ frames' = << >>
    /\ rec' = NoRec
    /\ UNCHANGED <<POOL_SIZE, boardUpdates, upd, screen, alt, dc>>

\* restart without "g.scaleFactor = g.ui.getScaleFactor()".
restartKeepsScale(u) ==
    [bRules |-> u.selectedBRules, sRules |-> u.selectedSRules,
     becomesAliveTable |-> updateTablesAlive(u.selectedBRules),
     becomesDeadTable |-> updateTablesDead(u.selectedSRules),
     scaleFactor |-> scaleFactor,
     avgStartingLiveCellPercentage |-> u.selectedLiveCellPercent]

\* The engine's rules, tables, scale factor and percentage after restart()
\* with the menu in state u.
restart(u) ==
    [bRules |-> u.selectedBRules, sRules |-> u.selectedSRules,
     becomesAliveTable |-> updateTablesAlive(u.selectedBRules),
     becomesDeadTable |-> updateTablesDead(u.selectedSRules),
     scaleFactor |-> getScaleFactor(u),
     avgStartingLiveCellPercentage |-> u.selectedLiveCellPercent]

\* Update with boardUpdates for g.updateCount in its test at a speed < 0.
BoardUpdatesOfBoardCounter(u) ==
    IF u.speed >= 0 THEN getSpeedup(u)
    ELSE IF boardUpdates % getSpeedup(u) = 0 THEN 1 ELSE 0

\* The number of updateBoard calls of an unpaused Update with the menu in
\* state u.
BoardUpdatesOf(u) ==
    IF u.speed >= 0 THEN getSpeedup(u)
    ELSE IF updateCount % getSpeedup(u) = 0 THEN 1 ELSE 0

\* restart with "r = rand.New(rand.NewSource(SEED))" before InitializeBoard.
RestartSourceReseeded == NewSource(SEED)

\* The source the InitializeBoard of restart draws from: the package variable
\* r as the draws before left it.
RestartSource == r

\* Update starting a recording on SHIFT+SPACE while the simulation runs too.
StartsRecordingUnpaused(keys) ==
    "Space" \in keys /\ "Shift" \in keys /\ ~rec.isSaving

\* "if g.isPaused && ebiten.IsKeyPressed(ebiten.KeyShift) && !g.isSaving"
\* under "if inpututil.IsKeyJustPressed(ebiten.KeySpace)".
StartsRecording(keys) ==
    "Space" \in keys /\ isPaused /\ "Shift" \in keys /\ ~rec.isSaving

\* "if !g.isPaused && g.isSaving" under the test of SPACE, reached when the
\* frame does not start a recording.
StopsRecording(keys) ==
    "Space" \in keys /\ ~StartsRecording(keys) /\ ~isPaused /\ rec.isSaving

\* Update with the pause toggled at once on SPACE, before "if g.isPaused".
PausedAfterToggle(keys) == IF "Space" \in keys THEN ~isPaused ELSE isPaused

\* "if g.isPaused" of Update: the toggle of a SPACE press is deferred, so the
\* test reads isPaused as it was when the frame began.
PausedAtCheck(keys) == isPaused

\* Update with restart on every key.
RestartOnAnyKey(keys) == keys # {}

\* Update restarts: "if inpututil.IsKeyJustPressed(ebiten.KeyR)".
RestartPressed(keys) == "R" \in keys

\* Update from its start to its loop over updateBoard, or to its return when
\* the game is paused: the input of the frame, restart on R, the pause toggle
\* deferred on SPACE.
UpdateEnter(keys) ==
    /\ UpdateMayStart
    /\ runs >= 1
    /\ RestartPressed(keys) => runs < MaxRuns
    /\ isPaused \/ updateCount < MaxUpdateCount
    /\ ui.selectedLiveCellPercent \in Densities
    /\ ui' = handleInput(ui, keys, isPaused)
    /\ ui'.speed >= -MaxSpeed /\ ui'.speed <= MaxSpeed
    /\ IF RestartPressed(keys)
       THEN \E g \in { restart(ui') } :
            \E st \in { InitializeBoardFrom(RestartSource, g.scaleFactor,
                                            g.avgStartingLiveCellPercentage) } :
                /\ bRules' = g.bRules
                /\ sRules' = g.sRules
                /\ becomesAliveTable' = g.becomesAliveTable
                /\ becomesDeadTable' = g.becomesDeadTable
                /\ scaleFactor' = g.scaleFactor
                /\ avgStartingLiveCellPercentage' = g.avgStartingLiveCellPercentage
                /\ gridX' = st.gridX
                /\ gridY' = st.gridY
                /\ worldGrid' = st.grid
                /\ buffer' = [k \in DOMAIN st.grid |-> 0]
                /\ pixels' = st.pix
                /\ r' = st.r
                /\ runs' = runs + 1
       ELSE UNCHANGED <<bRules, sRules, becomesAliveTable, becomesDeadTable, scaleFactor,
                        avgStartingLiveCellPercentage, gridX, gridY, worldGrid, buffer,
                        pixels, r, runs>>
    /\ rec' = IF StartsRecording(keys)
              THEN [rec EXCEPT !.isSaving = TRUE,
                               !.gifSaver = newGifSaver(rec.made + 1),
                               !.made = @ + 1,
                               !.start = <<runs', boardUpdates>>,
                               !.drawn = FALSE]
              ELSE IF StopsRecording(keys)
              THEN [rec EXCEPT !.isSaving = FALSE,
                               !.writers = Append(@, [at |-> "start", fileName |-> 0]),
                               !.drawn = FALSE]
              ELSE [rec EXCEPT !.drawn = FALSE]
    \* "return nil" of the frame that starts a recording: the deferred toggle
    \* runs, the test of ESCAPE does not.
    /\ IF StartsRecording(keys)
       THEN /\ isPaused' = ~isPaused
            /\ upd' = upd
       ELSE IF PausedAtCheck(keys)
       THEN /\ isPaused' = IF "Space" \in keys THEN ~isPaused ELSE isPaused
            /\ upd' = IF "Escape" \in keys THEN [upd EXCEPT !.at = "terminated"] ELSE upd
       ELSE /\ isPaused' = isPaused
            /\ upd' = [at |-> "loop", todo |-> BoardUpdatesOf(ui'),
                       toggle |-> "Space" \in keys, base |-> boardUpdates]
    /\ UNCHANGED <<POOL_SIZE, pc, numParts, rowsPerPart, tasks, wg, boardUpdates,
                   updateCount, grid0, frames, screen, taskChannel, workers, alt, dc>>

\* One g.updateBoard() of Update's loop, up to its first wg.Wait().
UpdateCall ==
    /\ upd.at = "loop"
    /\ upd.todo > 0
    /\ UpdateBoardStart
    /\ upd' = [upd EXCEPT !.todo = @ - 1]
    /\ UNCHANGED <<r, scaleFactor, avgStartingLiveCellPercentage, isPaused,
                   updateCount, ui, runs, grid0, frames, screen, taskChannel, workers, alt, rec, dc>>

\* The history q if its frames ran at speed s, the empty history if not.
SameSpeed(q, s) == IF q # << >> /\ q[Len(q)].speed = s THEN q ELSE << >>

\* The latest n entries of the sequence q.
Latest(q, n) == IF Len(q) <= n THEN q ELSE SubSeq(q, Len(q) - n + 1, Len(q))

\* Update from the end of its loop to its return: g.updateCount++, then the
\* deferred pause toggle.
UpdateReturn ==
    /\ upd.at = "loop"
    /\ upd.todo = 0
    /\ pc = "idle"
    /\ updateCount' = updateCount + 1
    /\ isPaused' = IF upd.toggle THEN ~isPaused ELSE isPaused
    /\ upd' = NoUpdate
    /\ frames' = Latest(Append(SameSpeed(frames, ui.speed),
                                [speed |-> ui.speed, calls |-> boardUpdates - upd.base]),
                        Pow2(MaxSpeed))
    /\ UNCHANGED <<boardVars, r, scaleFactor, avgStartingLiveCellPercentage, ui, runs,
                   grid0, screen, taskChannel, workers, alt, rec, dc>>

\* The program as main runs it: one Game, and the frames of ebiten.RunGame
\* call Update one after the other, the speed keys, SPACE and R in use.
NextUpdate ==
    \/ runs = 0 /\ NewGame
    \/ \E keys \in SpeedInputs : UpdateEnter(keys)
    \/ UpdateCall
    \/ (\E k \in DOMAIN tasks : TaskStep(k)) /\ UNCHANGED updateVars
    \/ BorderPassStart /\ UNCHANGED updateVars
    \/ Commit /\ UNCHANGED updateVars
    \/ UpdateReturn

SpecUpdate == InitUpdate /\ [][NextUpdate]_vars

\* The program with the keys of the pause menu in use, and a Game made anew
\* between two frames as the benchmarks make it.
NextMenu ==
    \/ NewGame
    \/ \E keys \in MenuInputs : UpdateEnter(keys)
    \/ UpdateCall
    \/ (\E k \in DOMAIN tasks : TaskStep(k)) /\ UNCHANGED updateVars
    \/ BorderPassStart /\ UNCHANGED updateVars
    \/ Commit /\ UNCHANGED updateVars
    \/ UpdateReturn

SpecMenu == InitUpdate /\ [][NextMenu]_vars

\* The sets of keys pressed in one frame that are explored with the GIF
\* recording in use.
RecordInputs ==
    { {}, {"Space"}, {"Space", "Shift"}, {"R"}, {"Space", "Shift", "R"} }

\* ebiten calling Update whether or not Draw followed the Update before.
FrameMayStartAnyTick == TRUE

\* main sets ebiten.SetTPS(ebiten.SyncWithFPS): every frame is one Update
\* followed by one Draw, so Update starts when Draw followed the Update
\* before it.
FrameMayStart == rec.drawn

\* Draw: "if g.isSaving { g.gifSaver.saveFrame(g.img) }", the image being
\* that of the board <<runs, boardUpdates>> whose pixels it was given.
Draw ==
    /\ UpdateMayStart
    /\ runs >= 1
    /\ ~rec.drawn
    /\ rec' = [rec EXCEPT !.drawn = TRUE,
                          !.gifSaver.frames = IF rec.isSaving
                                              THEN Append(@, <<runs, boardUpdates>>)
                                              ELSE @]
    /\ UNCHANGED <<boardVars, r, scaleFactor, avgStartingLiveCellPercentage, isPaused,
                   updateCount, ui, upd, runs, grid0, frames, screen, taskChannel,
                   workers, alt, dc>>

\* A step of the goroutine rec.writers[w] that Update started when a
\* recording stopped: it enters g.gifSaver.writeToFile(), reads the file name
\* for os.Create, reads the frames for gif.EncodeAll.  Nothing orders these
\* reads with the writes of Update and Draw to g.gifSaver.
WriterStep(w) ==
    /\ rec.writers[w].at # "done"
    /\ rec' = IF rec.writers[w].at = "start"
              THEN [rec EXCEPT !.writers[w].at = "create"]
              ELSE IF rec.writers[w].at = "create"
              THEN [rec EXCEPT !.writers[w].at = "encode",
                               !.writers[w].fileName = rec.gifSaver.fileName]
              ELSE [rec EXCEPT !.writers[w].at = "done",
                               !.files = Append(@, [fileName |-> rec.writers[w].fileName,
                                                    frames |-> rec.gifSaver.frames])]
    /\ UNCHANGED <<boardVars, r, scaleFactor, avgStartingLiveCellPercentage, isPaused,
                   updateCount, ui, upd, runs, grid0, frames, screen, taskChannel,
                   workers, alt, dc>>

\* The zero Game on the default screen, for the recording.
InitRecord == InitGameOn({DefaultScreen})

\* The program as main runs it, the keys of the recording in use: frames of
\* one Update and one Draw, and the goroutines that write the GIF files.  R
\* is explored on the first board, before the first Update that is not
\* paused returns.
NextRecord ==
    \/ runs = 0 /\ NewGame
    \/ \E keys \in RecordInputs :
          /\ FrameMayStart
          /\ StartsRecording(keys) => rec.made < MaxRecordings
          /\ "R" \in keys => runs = 1 /\ updateCount = 0
          /\ UpdateEnter(keys)
    \/ UpdateCall
    \/ (\E k \in DOMAIN tasks : TaskStep(k)) /\ UNCHANGED updateVars
    \/ BorderPassStart /\ UNCHANGED updateVars
    \/ Commit /\ UNCHANGED updateVars
    \/ UpdateReturn
    \/ Draw
    \/ \E w \in DOMAIN rec.writers : WriterStep(w)

SpecRecord == InitRecord /\ [][NextRecord]_vars

\* The zero Game on one of the screens.
InitKeys == InitGameOn(Screens)

\* The program as main starts it on one of the screens, left in its pause
\* menu: the frames of the keys that edit the percentage, the scale factor
\* and the rules in the first game, and R, one restart after the other up
\* to the last.
NextKeys ==
    \/ runs = 0 /\ NewGame
    \/ \E keys \in KeyInputs :
          /\ runs < MaxRuns
          /\ runs = 1 \/ keys = {"R"}
          /\ UpdateEnter(keys)

SpecKeys == InitKeys /\ [][NextKeys]_vars

\* ------------------------------------- updateBoardAlt and the workers

\* The boards updateBoardAlt is run on: one range and two ranges, at 50
\* percent, under B3/S23.
AltScenarios ==
    { [w |-> b[1], h |-> b[2], pct |-> 500, rules |-> <<{3}, {2, 3}>>,
       alive |-> Drawn(b[1], b[2], 500)] : b \in { <<1, 4>>, <<2, 8>> } }

\* A Game on one of these boards, its POOL_SIZE workers started.
InitAlt == InitOnBoards(AltScenarios, {1, 2})

\* The tasks updateBoardAlt sends in the pass it is in, in their order.
AltTasks ==
    IF pc = "altInterior" THEN InteriorTasks(numParts, rowsPerPart, gridY)
    ELSE BorderTasks(numParts, rowsPerPart, gridY)

\* updateBoardAlt up to its first loop: the snapshot and the partition.
updateBoardAltStart ==
    /\ pc = "idle"
    /\ alt.calls < MaxAltCalls
    /\ buffer' = worldGrid
    /\ numParts' = NumParts(POOL_SIZE, gridY)
    /\ IF numParts' = 0
       THEN /\ pc' = "panic"
            /\ UNCHANGED <<rowsPerPart, alt>>
       ELSE /\ rowsPerPart' = gridY \div numParts'
            /\ alt' = [added |-> 0, sent |-> 0, calls |-> alt.calls + 1]
            /\ pc' = "altInterior"
    /\ UNCHANGED <<gridX, gridY, POOL_SIZE, bRules, sRules, becomesAliveTable,
                   becomesDeadTable, worldGrid, pixels, tasks, wg, boardUpdates,
                   r, scaleFactor, avgStartingLiveCellPercentage, isPaused, updateCount,
                   ui, upd, runs, grid0, frames, screen, taskChannel, workers, rec, dc>>

\* g.wg.Add(1) before a send, g.wg.Add(2) before the first send of the
\* border pass.
AltAdd ==
    /\ pc \in {"altInterior", "altBorder"}
    /\ alt.added = alt.sent
    /\ alt.sent < Len(AltTasks)
    /\ LET n == IF pc = "altBorder" /\ alt.sent = 0 THEN 2 ELSE 1
       IN  /\ wg' = wg + n
           /\ alt' = [alt EXCEPT !.added = @ + n]
    /\ UNCHANGED <<gridX, gridY, POOL_SIZE, bRules, sRules, becomesAliveTable,
                   becomesDeadTable, worldGrid, buffer, pixels, pc, numParts, rowsPerPart,
                   tasks, boardUpdates,
                   r, scaleFactor, avgStartingLiveCellPercentage, isPaused, updateCount,
                   ui, upd, runs, grid0, frames, screen, taskChannel, workers, rec, dc>>

\* g.taskChannel <- Task{...}: the send blocks while the buffer of the
\* channel, of capacity POOL_SIZE, is full.
AltSend ==
    /\ pc \in {"altInterior", "altBorder"}
    /\ alt.sent < alt.added
    /\ Len(taskChannel) < POOL_SIZE
    /\ taskChannel' = Append(taskChannel, AltTasks[alt.sent + 1])
    /\ alt' = [alt EXCEPT !.sent = @ + 1]
    /\ UNCHANGED <<gridX, gridY, POOL_SIZE, bRules, sRules, becomesAliveTable,
                   becomesDeadTable, worldGrid, buffer, pixels, pc, numParts, rowsPerPart,
                   tasks, wg, boardUpdates,
                   r, scaleFactor, avgStartingLiveCellPercentage, isPaused, updateCount,
                   ui, upd, runs, grid0, frames, screen, workers, rec, dc>>

\* g.wg.Wait() returns: after the first pass the border pass starts, after
\* the second copy(g.worldGrid, g.buffer) ends updateBoardAlt.
AltWait ==
    /\ pc \in {"altInterior", "altBorder"}
    /\ alt.sent = Len(AltTasks)
    /\ WaitReturns
    /\ IF pc = "altInterior"
       THEN /\ pc' = "altBorder"
            /\ worldGrid' = worldGrid
       ELSE /\ pc' = "idle"
            /\ worldGrid' = buffer
    /\ alt' = [alt EXCEPT !.added = 0, !.sent = 0]
    /\ UNCHANGED <<gridX, gridY, POOL_SIZE, bRules, sRules, becomesAliveTable,
                   becomesDeadTable, buffer, pixels, numParts, rowsPerPart,
                   tasks, wg, boardUpdates,
                   r, scaleFactor, avgStartingLiveCellPercentage, isPaused, updateCount,
                   ui, upd, runs, grid0, frames, screen, taskChannel, workers, rec, dc>>

\* A worker receives a task: "for task := range g.taskChannel".
WorkerTake(w) ==
    /\ pc # "panic"
    /\ workers[w].at = "idle"
    /\ taskChannel # << >>
    /\ workers' = [workers EXCEPT ![w] = [at |-> "updateRange", task |-> Head(taskChannel)]]
    /\ taskChannel' = Tail(taskChannel)
    /\ UNCHANGED <<boardVars, r, scaleFactor, avgStartingLiveCellPercentage, isPaused,
                   updateCount, ui, upd, runs, grid0, frames, screen, alt, rec, dc>>

\* The loops of g.updateRange(task.minY, task.maxY) in a worker; a value that
\* is no index of the tables makes the lookup panic.
WorkerUpdateRange(w) ==
    /\ pc # "panic"
    /\ workers[w].at = "updateRange"
    /\ LET t == workers[w].task
           st == updateRange([buf |-> buffer, pix |-> pixels], t.minY, t.maxY)
           ok == \A i \in t.minY..t.maxY, j \in 1..gridX :
                     InTable(worldGrid[Idx(gridX, i, j)])
       IN  IF ok
           THEN /\ buffer' = st.buf
                /\ pixels' = st.pix
                /\ workers' = [workers EXCEPT ![w].at = "rangeDone"]
                /\ pc' = pc
           ELSE /\ pc' = "panic"
                /\ UNCHANGED <<buffer, pixels, workers>>
    /\ UNCHANGED <<gridX, gridY, POOL_SIZE, bRules, sRules, becomesAliveTable,
                   becomesDeadTable, worldGrid, numParts, rowsPerPart, tasks, wg,
                   boardUpdates,
                   r, scaleFactor, avgStartingLiveCellPercentage, isPaused, updateCount,
                   ui, upd, runs, grid0, frames, screen, taskChannel, alt, rec, dc>>

\* wg.Done() by the worker in state at, which leaves it in state to: Done
\* on a counter of 0 panics ("sync: negative WaitGroup counter").
Done(w, at, to) ==
    /\ pc # "panic"
    /\ workers[w].at = at
    /\ IF wg > 0
       THEN /\ wg' = wg - 1
            /\ workers' = [workers EXCEPT ![w] = [at |-> to, task |-> IF to = "idle" THEN 0 ELSE @.task]]
            /\ pc' = pc
       ELSE /\ pc' = "panic"
            /\ UNCHANGED <<wg, workers>>
    /\ UNCHANGED <<gridX, gridY, POOL_SIZE, bRules, sRules, becomesAliveTable,
                   becomesDeadTable, worldGrid, buffer, pixels, numParts, rowsPerPart,
                   tasks, boardUpdates,
                   r, scaleFactor, avgStartingLiveCellPercentage, isPaused, updateCount,
                   ui, upd, runs, grid0, frames, screen, taskChannel, alt, rec, dc>>

\* The g.wg.Done() that ends updateRange.
WorkerRangeDone(w) == Done(w, "rangeDone", "workerDone")

\* The g.wg.Done() of the worker after updateRange returned ("To signal that
\* the task is done").
WorkerDone(w) == Done(w, "workerDone", "idle")

\* updateBoardAlt called again and again on one board, as BenchmarkUpdateAlt
\* calls it, and the workers of the pool.
NextAlt ==
    \/ updateBoardAltStart
    \/ AltAdd
    \/ AltSend
    \/ AltWait
    \/ \E w \in DOMAIN workers : WorkerTake(w)
    \/ \E w \in DOMAIN workers : WorkerUpdateRange(w)
    \/ \E w \in DOMAIN workers : WorkerRangeDone(w)
    \/ \E w \in DOMAIN workers : WorkerDone(w)

SpecAlt == InitAlt /\ [][NextAlt]_vars

\* ------------------------------- the self-inclusive engine of main.go

\* The uint8 a cell of main.go's worldGrid holds.
Uint8(x) == x % 256

\* The loops over a and b with "if a != 0 || b != 0" around their body.
AddToNeighbours(w, grid, i, j, d) ==
    [grid EXCEPT ![Idx(w, i - 1, j - 1)] = Uint8(@ + d),
                 ![Idx(w, i - 1, j)] = Uint8(@ + d),
                 ![Idx(w, i - 1, j + 1)] = Uint8(@ + d),
                 ![Idx(w, i, j - 1)] = Uint8(@ + d),
                 ![Idx(w, i, j + 1)] = Uint8(@ + d),
                 ![Idx(w, i + 1, j - 1)] = Uint8(@ + d),
                 ![Idx(w, i + 1, j)] = Uint8(@ + d),
                 ![Idx(w, i + 1, j + 1)] = Uint8(@ + d)]

\* The loops over a and b of initializeBoard and Update: d added to the nine
\* slots around (i, j), the slot of (i, j) among them.
AddToWindow(w, grid, i, j, d) ==
    [grid EXCEPT ![Idx(w, i - 1, j - 1)] = Uint8(@ + d),
                 ![Idx(w, i - 1, j)] = Uint8(@ + d),
                 ![Idx(w, i - 1, j + 1)] = Uint8(@ + d),
                 ![Idx(w, i, j - 1)] = Uint8(@ + d),
                 ![Idx(w, i, j)] = Uint8(@ + d),
                 ![Idx(w, i, j + 1)] = Uint8(@ + d),
                 ![Idx(w, i + 1, j - 1)] = Uint8(@ + d),
                 ![Idx(w, i + 1, j)] = Uint8(@ + d),
                 ![Idx(w, i + 1, j + 1)] = Uint8(@ + d)]

RECURSIVE initializeLoop(_, _, _, _, _, _)
\* The double loop of initializeBoard from draw c on.
initializeLoop(w, h, alive, c, grid, pix) ==
    IF Evaluated(<<grid, pix>>) /\ c >= w * h THEN [grid |-> grid, pix |-> pix]
    ELSE IF c \in alive
         THEN LET i == DrawRow(w, c)
                  j == DrawCol(w, c)
                  g0 == [grid EXCEPT ![Idx(w, i, j)] = IF @ % 2 = 0 THEN @ + 1 ELSE @]
              IN  initializeLoop(w, h, alive, c + 1, AddToWindow(w, g0, i, j, 2),
                                 setPixel(pix, w, j - 1, i - 1, FALSE))
         ELSE initializeLoop(w, h, alive, c + 1, grid, pix)

\* initializeBoard of main.go on a board of w by h cells, alive the draws that
\* come out below the density threshold: g.pixels.Fill(color.Black), the two
\* slices of zeros, the double loop.
initializeBoard(w, h, alive) ==
    initializeLoop(w, h, alive, 0,
                   [k \in 0..((w + 2) * (h + 2) - 1) |-> 0],
                   BlackLoop(w, h, 0, [k \in 0..(4 * w * h - 1) |-> 0]))

\* The index of g.SRules in Update's test of a living cell: val>>1-1, a uint8.
SurvivalIndex(val) == Uint8(val \div 2 - 1)

\* The body of Update's double loop for the cell (i, j): st holds worldGrid,
\* the buffer, the pixels and whether an index was out of range.
UpdateCell(w, st, i, j) ==
    LET ind == Idx(w, i, j)
        val == st.grid[ind]
    IN  IF st.panic THEN st
        ELSE IF val % 2 = 0
        THEN IF val \div 2 >= RuleLen THEN [st EXCEPT !.panic = TRUE]
             ELSE IF bRules[val \div 2]
             THEN [st EXCEPT
                     !.buf = AddToWindow(w, [st.buf EXCEPT ![ind] =
                                                IF @ % 2 = 0 THEN @ + 1 ELSE @],
                                         i, j, 2),
                     !.pix = setPixel(st.pix, w, j - 1, i - 1, FALSE)]
             ELSE st
        ELSE IF SurvivalIndex(val) >= RuleLen THEN [st EXCEPT !.panic = TRUE]
             ELSE IF ~sRules[SurvivalIndex(val)]
             THEN [st EXCEPT
                     !.buf = AddToWindow(w, [st.buf EXCEPT ![ind] = Uint8(@ - 1)],
                                         i, j, -2),
                     !.pix = setPixel(st.pix, w, j - 1, i - 1, TRUE)]
             ELSE st

RECURSIVE UpdateLoop(_, _, _, _)
\* Update's double loop from cell c on, in the order of the loops.
UpdateLoop(w, h, c, st) ==
    IF Evaluated(st) /\ c >= w * h THEN st
    ELSE UpdateLoop(w, h, c + 1, UpdateCell(w, st, DrawRow(w, c), DrawCol(w, c)))

\* verifyNeighbourCounts(gridX, gridY, worldGrid) of the tests: "pass",
\* "fail", or "panic" when an index is out of range.  Both of its loops run
\* to gridY.
verifyNeighbourCounts(w, h, grid) ==
    LET cells == (1..h) \X (1..h)
        window(i, j) == { Idx(w, i + a, j + b) : a \in -1..1, b \in -1..1 }
        desiredVal(i, j) ==
            2 * Cardinality({ k \in window(i, j) : grid[k] % 2 = 1 })
        ok(i, j) == desiredVal(i, j) + (grid[Idx(w, i, j)] % 2) = grid[Idx(w, i, j)]
        \* The cells the loops reach before they return an error.
        before(i, j) == { c \in cells : c[1] < i \/ (c[1] = i /\ c[2] < j) }
        reached == { c \in cells : \A p \in before(c[1], c[2]) : ok(p[1], p[2]) }
    IN  IF \E c \in reached : \E k \in window(c[1], c[2]) : k \notin DOMAIN grid
        THEN "panic"
        ELSE IF \A c \in cells : ok(c[1], c[2]) THEN "pass" ELSE "fail"

\* The boards <<gridX, gridY>> the engine of main.go is explored on.
SelfBoards == (1..MaxSelfSide) \X (1..MaxSelfSide)

\* The outcomes of the w*h draws of initializeBoard that are explored, as the
\* set of draws that come out alive.
SelfOutcomes(w, h) ==
    IF w * h <= MaxSelfCells THEN SUBSET (0..(w * h - 1))
    ELSE { {}, 0..(w * h - 1) } \cup { (0..(w * h - 1)) \ {c} : c \in 0..(w * h - 1) }

\* main.go's Game after initializeState and initializeBoard, paused: on one
\* of the boards, with one of the outcomes of the draws, under one of the
\* rule sets.
InitSelf ==
    /\ \E b \in SelfBoards :
         /\ gridX = b[1]
         /\ gridY = b[2]
         /\ \E alive \in SelfOutcomes(b[1], b[2]) :
              LET st == initializeBoard(b[1], b[2], alive)
              IN  /\ worldGrid = st.grid
                  /\ pixels = st.pix
         /\ buffer = [k \in 0..((b[1] + 2) * (b[2] + 2) - 1) |-> 0]
    /\ \E rs \in RuleSets :
         /\ bRules = Ruleset(rs[1])
         /\ sRules = Ruleset(rs[2])
         /\ becomesAliveTable = updateTablesAlive(Ruleset(rs[1]))
         /\ becomesDeadTable = updateTablesDead(Ruleset(rs[2]))
    /\ POOL_SIZE = 1
    /\ pc = "idle"
    /\ numParts = 0
    /\ rowsPerPart = 0
    /\ tasks = << >>
    /\ wg = 0
    /\ boardUpdates = 0
    /\ r = NewSource(SEED)
    /\ scaleFactor = 1
    /\ avgStartingLiveCellPercentage = 500
    /\ isPaused = TRUE
    /\ updateCount = 0
    /\ ui = initialize(bRules, sRules, 500, 0)
    /\ upd = NoUpdate
    /\ runs = 1
    /\ grid0 = [gridX |-> gridX, gridY |-> gridY, pct |-> 500, grid |-> worldGrid,
                pix |-> pixels]
    /\ frames = << >>
    /\ screen = <<gridX, gridY>>
    /\ rec = NoRec
    /\ dc = NoDivide
    /\ taskChannel = << >>
    /\ workers = << >>
    /\ alt = NoAlt

\* Restart of main.go: the rules, the scale factor and the percentage of the
\* menu, then initializeBoard with draws from r.
Restart ==
    LET w == ScreenSizeInFullscreen[1] \div getScaleFactor(ui)
        h == ScreenSizeInFullscreen[2] \div getScaleFactor(ui)
        d == DrawLoop(r, w * h, 0, ui.selectedLiveCellPercent, {})
        st == initializeBoard(w, h, d.alive)
    IN  [bRules |-> ui.selectedBRules, sRules |-> ui.selectedSRules,
         scaleFactor |-> getScaleFactor(ui),
         avgStartingLiveCellPercentage |-> ui.selectedLiveCellPercent,
         gridX |-> w, gridY |-> h, grid |-> st.grid,
         buffer |-> [k \in DOMAIN st.grid |-> 0], pix |-> st.pix, r |-> d.r]

\* Update of main.go in a frame in which the keys of keys were just pressed,
\* R and SPACE among them or not: Restart on R, the pause toggle on SPACE,
\* and unless paused the double loop between the two copies.  It runs in the
\* one goroutine of ebiten, from its first line to its return.  boardUpdates
\* counts the calls that were not paused.
Update(keys) ==
    /\ pc = "idle"
    /\ "R" \in keys => runs < MaxRuns
    /\ \E g \in { IF "R" \in keys THEN Restart
                   ELSE [bRules |-> bRules, sRules |-> sRules, scaleFactor |-> scaleFactor,
                         avgStartingLiveCellPercentage |-> avgStartingLiveCellPercentage,
                         gridX |-> gridX, gridY |-> gridY, grid |-> worldGrid,
                         buffer |-> buffer, pix |-> pixels, r |-> r] } :
       LET paused == IF "Space" \in keys THEN ~isPaused ELSE isPaused
       IN  /\ bRules' = g.bRules
           /\ sRules' = g.sRules
           /\ scaleFactor' = g.scaleFactor
           /\ avgStartingLiveCellPercentage' = g.avgStartingLiveCellPercentage
           /\ gridX' = g.gridX
           /\ gridY' = g.gridY
           /\ r' = g.r
           /\ runs' = IF "R" \in keys THEN runs + 1 ELSE runs
           /\ isPaused' = paused
           /\ IF paused
              THEN /\ worldGrid' = g.grid
                   /\ buffer' = g.buffer
                   /\ pixels' = g.pix
                   /\ UNCHANGED <<pc, boardUpdates>>
              ELSE /\ boardUpdates < MaxSelfGen
                   /\ \E st \in { UpdateLoop(g.gridX, g.gridY, 0,
                                              [grid |-> g.grid, buf |-> g.grid,
                                               pix |-> g.pix, panic |-> FALSE]) } :
                          /\ buffer' = st.buf
                          /\ pixels' = st.pix
                          /\ IF st.panic
                             THEN pc' = "panic" /\ worldGrid' = g.grid
                                  /\ UNCHANGED boardUpdates
                             ELSE pc' = pc /\ worldGrid' = st.buf
                                  /\ boardUpdates' = boardUpdates + 1
    /\ UNCHANGED <<POOL_SIZE, becomesAliveTable, becomesDeadTable, numParts,
                   rowsPerPart, tasks, wg, updateCount, ui, upd, grid0, frames,
                   screen, taskChannel, workers, alt, rec, dc>>

\* The frames of main.go's Game, one Update after the other.
NextSelf == \E keys \in SUBSET {"R", "Space"} : Update(keys)

SpecSelf == InitSelf /\ [][NextSelf]_vars

\* ------------------------- the divide-and-conquer engine (updateRange)

\* The loops over a and b of the divide-and-conquer InitializeBoard and
\* updateRange: d added, as an int8, to the nine slots around (i, j).
AddAround(w, grid, i, j, d) ==
    [grid EXCEPT ![Idx(w, i - 1, j - 1)] = Int8(@ + d),
                 ![Idx(w, i - 1, j)] = Int8(@ + d),
                 ![Idx(w, i - 1, j + 1)] = Int8(@ + d),
                 ![Idx(w, i, j - 1)] = Int8(@ + d),
                 ![Idx(w, i, j)] = Int8(@ + d),
                 ![Idx(w, i, j + 1)] = Int8(@ + d),
                 ![Idx(w, i + 1, j - 1)] = Int8(@ + d),
                 ![Idx(w, i + 1, j)] = Int8(@ + d),
                 ![Idx(w, i + 1, j + 1)] = Int8(@ + d)]

RECURSIVE InitializeLoopDivide(_, _, _, _, _, _)
\* The double loop of this InitializeBoard from draw c on.
InitializeLoopDivide(w, h, alive, c, grid, pix) ==
    IF Evaluated(<<grid, pix>>) /\ c >= w * h THEN [grid |-> grid, pix |-> pix]
    ELSE IF c \in alive
         THEN LET i == DrawRow(w, c)
                  j == DrawCol(w, c)
                  g0 == [grid EXCEPT ![Idx(w, i, j)] = IF @ % 2 = 0 THEN @ + 1 ELSE @]
              IN  InitializeLoopDivide(w, h, alive, c + 1, AddAround(w, g0, i, j, 2),
                                       setPixel(pix, w, j - 1, i - 1, FALSE))
         ELSE InitializeLoopDivide(w, h, alive, c + 1, grid, pix)

\* InitializeBoard of the divide-and-conquer engine on a board of w by h
\* cells, alive the draws that come out below the density threshold.
InitializeBoardDivide(w, h, alive) ==
    InitializeLoopDivide(w, h, alive, 0,
                         [k \in 0..((w + 2) * (h + 2) - 1) |-> 0],
                         BlackLoop(w, h, 0, [k \in 0..(4 * w * h - 1) |-> 0]))

\* The leaf of updateRange for the cell (i, j): st holds the buffer, the
\* pixels, the slots written and whether an index was out of range.
RangeCell(st, i, j) ==
    LET ind == Idx(gridX, i, j)
        val == worldGrid[ind]
    IN  IF st.panic THEN st
        ELSE IF val % 2 = 0
        THEN IF val \div 2 \notin 0..(RuleLen - 1) THEN [st EXCEPT !.panic = TRUE]
             ELSE IF bRules[val \div 2]
             THEN [st EXCEPT
                     !.buf = AddAround(gridX, [st.buf EXCEPT ![ind] =
                                                  IF @ % 2 = 0 THEN @ + 1 ELSE @],
                                       i, j, 2),
                     !.pix = setPixel(st.pix, gridX, j - 1, i - 1, FALSE),
                     !.wrote = @ \cup KernelSlots(gridX, i, j)]
             ELSE st
        ELSE IF (val \div 2) - 1 \notin 0..(RuleLen - 1) THEN [st EXCEPT !.panic = TRUE]
             ELSE IF ~sRules[(val \div 2) - 1]
             THEN [st EXCEPT
                     !.buf = AddAround(gridX, [st.buf EXCEPT ![ind] = Int8(@ - 1)],
                                       i, j, -2),
                     !.pix = setPixel(st.pix, gridX, j - 1, i - 1, TRUE),
                     !.wrote = @ \cup KernelSlots(gridX, i, j)]
             ELSE st

RECURSIVE RangeRowFrom(_, _, _)
\* The loop over j of the leaf of updateRange in row i, from column j on.
RangeRowFrom(st, i, j) ==
    IF Evaluated(st) /\ j > gridX THEN st
    ELSE RangeRowFrom(RangeCell(st, i, j), i, j + 1)

\* runtime.NumGoroutine(): the goroutines alive beside the updateRange calls
\* and the updateRange calls whose goroutine has not ended.  The call for the
\* two rows between the halves runs in the goroutine of the call that makes
\* it; it is part of that call's record.
NumGoroutine ==
    dc.base + Cardinality({ c \in DOMAIN dc.calls : dc.calls[c].at # "done" })

\* updateRange with "go g.updateRange(midY+1, maxY, &newWg)".
RightMinTouching(midY) == midY + 1

\* The first row of the second half of a split: midY+2.
RightMin(midY) == midY + 2

\* (minY + maxY) / 2.
MidY(c) == (dc.calls[c].minY + dc.calls[c].maxY) \div 2

\* An updateRange call as "go g.updateRange(minY, maxY, wg)" starts it, wg the
\* WaitGroup of the call parent (0: the WaitGroup of Update).
NewRange(minY, maxY, parent) ==
    [minY |-> minY, maxY |-> maxY, parent |-> parent, at |-> "test",
     row |-> minY, newWg |-> 0, wrote |-> {}]

RECURSIVE AncestorsOf(_)
\* The call c and the calls that wait for it.
AncestorsOf(c) == IF c = 0 THEN {} ELSE {c} \cup AncestorsOf(dc.calls[c].parent)

\* The numbers of goroutines that are alive beside the updateRange calls of
\* an Update when it starts (the goroutine that runs Update, those of
\* ebiten, those that write GIF files, and on a board higher than the
\* explored ones the updateRange calls above the explored range): the one
\* that runs Update alone, and up to MaxHeadroom fewer than MAX_ROUTINES.
OtherGoroutines == {1} \cup { MAX_ROUTINES - d : d \in 1..MaxHeadroom }

\* Update from "copy(g.buffer, g.worldGrid)" to "go g.updateRange(1,
\* g.gridY, &wg)".
DivideStart ==
    /\ dc.at = "idle"
    /\ pc = "idle"
    /\ boardUpdates < MaxDivideGen
    /\ buffer' = worldGrid
    /\ \E b \in OtherGoroutines :
         dc' = [at |-> "running", base |-> b, wg |-> 1,
                calls |-> << NewRange(1, gridY, 0) >>,
                processed |-> [i \in 1..gridY |-> 0]]
    /\ UNCHANGED <<gridX, gridY, POOL_SIZE, bRules, sRules, becomesAliveTable,
                   becomesDeadTable, worldGrid, pixels, pc, numParts, rowsPerPart,
                   tasks, wg, boardUpdates>>

\* The test of updateRange: "runtime.NumGoroutine() < MAX_ROUTINES &&
\* maxY-minY+1 >= 4".
RangeTest(c) ==
    /\ pc = "idle"
    /\ dc.calls[c].at = "test"
    /\ dc' = [dc EXCEPT !.calls[c].at =
                 IF NumGoroutine < MAX_ROUTINES
                    /\ dc.calls[c].maxY - dc.calls[c].minY + 1 >= 4
                 THEN "spawn" ELSE "leaf"]
    /\ UNCHANGED boardVars

\* newWg.Add(2) and the two go statements.
RangeSpawn(c) ==
    /\ pc = "idle"
    /\ dc.calls[c].at = "spawn"
    /\ dc' = [dc EXCEPT !.calls =
                 [@ EXCEPT ![c].at = "wait", ![c].newWg = 2]
                 \o << NewRange(dc.calls[c].minY, MidY(c) - 1, c),
                       NewRange(RightMin(MidY(c)), dc.calls[c].maxY, c) >>]
    /\ UNCHANGED boardVars

\* newWg.Wait() returns; newWg.Add(1) and the call g.updateRange(midY,
\* midY+1, &newWg), which has two rows and so takes the leaf.
RangeWait(c) ==
    /\ pc = "idle"
    /\ dc.calls[c].at = "wait"
    /\ dc.calls[c].newWg = 0
    /\ dc' = [dc EXCEPT !.calls[c].at = "band", !.calls[c].row = MidY(c),
                        !.calls[c].newWg = 1]
    /\ UNCHANGED boardVars

\* The last row a call processes itself: maxY in a leaf, midY+1 between the
\* halves.
LastRow(c) == IF dc.calls[c].at = "band" THEN MidY(c) + 1 ELSE dc.calls[c].maxY

\* One row of the leaf of updateRange, in a call that took the leaf or in
\* the call for the two rows between the halves; after the last row the
\* call returns, and the call between the halves runs its deferred
\* newWg.Done().
RangeRow(c) ==
    /\ pc = "idle"
    /\ dc.calls[c].at \in {"leaf", "band"}
    /\ IF dc.calls[c].row > LastRow(c)
       THEN /\ dc' = [dc EXCEPT !.calls[c].at = "exit",
                               !.calls[c].newWg = IF dc.calls[c].at = "band"
                                                  THEN @ - 1 ELSE @]
            /\ UNCHANGED boardVars
       ELSE \E st \in { RangeRowFrom([buf |-> buffer, pix |-> pixels, wrote |-> {},
                                      panic |-> FALSE], dc.calls[c].row, 1) } :
              /\ buffer' = st.buf
              /\ pixels' = st.pix
              /\ pc' = IF st.panic THEN "panic" ELSE pc
              /\ dc' = [dc EXCEPT
                          !.processed[dc.calls[c].row] = @ + 1,
                          !.calls = [k \in DOMAIN @ |->
                                       IF k = c
                                       THEN [@[k] EXCEPT !.row = @ + 1,
                                                         !.wrote = @ \cup st.wrote]
                                       ELSE IF k \in AncestorsOf(c)
                                       THEN [@[k] EXCEPT !.wrote = @ \cup st.wrote]
                                       ELSE @[k]]]
              /\ UNCHANGED <<gridX, gridY, POOL_SIZE, bRules, sRules,
                             becomesAliveTable, becomesDeadTable, worldGrid,
                             numParts, rowsPerPart, tasks, wg, boardUpdates>>

\* The deferred wg.Done() of updateRange, on the WaitGroup it was given; the
\* goroutine ends.
RangeDone(c) ==
    /\ pc = "idle"
    /\ dc.calls[c].at = "exit"
    /\ dc' = IF dc.calls[c].parent = 0
             THEN [dc EXCEPT !.calls[c].at = "done", !.wg = @ - 1]
             ELSE [dc EXCEPT !.calls[c].at = "done",
                             !.calls[dc.calls[c].parent].newWg = @ - 1]
    /\ UNCHANGED boardVars

\* wg.Wait() of Update returns; copy(g.worldGrid, g.buffer).
DivideCommit ==
    /\ pc = "idle"
    /\ dc.at = "running"
    /\ dc.wg = 0
    /\ worldGrid' = buffer
    /\ boardUpdates' = boardUpdates + 1
    /\ dc' = [dc EXCEPT !.at = "idle"]
    /\ UNCHANGED <<gridX, gridY, POOL_SIZE, bRules, sRules, becomesAliveTable,
                   becomesDeadTable, buffer, pixels, pc, numParts, rowsPerPart,
                   tasks, wg>>

\* The boards the divide-and-conquer engine is run on: one and two columns,
\* up to MaxDivideRows rows, at 0 and 50 percent, under B0/S (from the empty
\* board every cell changes in every update) and B3/S23.
DivideScenarios ==
    { [w |-> b[1], h |-> b[2], pct |-> p, rules |-> rs, alive |-> Drawn(b[1], b[2], p)] :
        b \in (1..2) \X (1..MaxDivideRows), p \in {0, 500},
        rs \in { <<{0}, {}>>, <<{3}, {2, 3}>> } }

\* A Game of the divide-and-conquer engine on one of these boards, not
\* paused, InitializeBoard done.
InitDivide ==
    /\ \E sc \in DivideScenarios :
         LET st == InitializeBoardDivide(sc.w, sc.h, sc.alive)
         IN  /\ gridX = sc.w
             /\ gridY = sc.h
             /\ worldGrid = st.grid
             /\ pixels = st.pix
             /\ buffer = [k \in DOMAIN st.grid |-> 0]
             /\ bRules = Ruleset(sc.rules[1])
             /\ sRules = Ruleset(sc.rules[2])
             /\ becomesAliveTable = updateTablesAlive(Ruleset(sc.rules[1]))
             /\ becomesDeadTable = updateTablesDead(Ruleset(sc.rules[2]))
             /\ avgStartingLiveCellPercentage = sc.pct
             /\ ui = initialize(Ruleset(sc.rules[1]), Ruleset(sc.rules[2]), sc.pct, 0)
             /\ grid0 = [gridX |-> sc.w, gridY |-> sc.h, pct |-> sc.pct,
                         grid |-> st.grid, pix |-> st.pix]
    /\ POOL_SIZE = 1
    /\ pc = "idle"
    /\ numParts = 0
    /\ rowsPerPart = 0
    /\ tasks = << >>
    /\ wg = 0
    /\ boardUpdates = 0
    /\ r = NewSource(SEED)
    /\ scaleFactor = 1
    /\ isPaused = FALSE
    /\ updateCount = 0
    /\ upd = NoUpdate
    /\ runs = 1
    /\ frames = << >>
    /\ screen = <<gridX, gridY>>
    /\ rec = NoRec
    /\ dc = NoDivide
    /\ taskChannel = << >>
    /\ workers = << >>
    /\ alt = NoAlt

\* The board update of Update called again and again, at most MaxDivideGen
\* times, and the updateRange calls it starts.
NextDivide ==
    \/ DivideStart /\ UNCHANGED <<r, scaleFactor, avgStartingLiveCellPercentage,
                                  isPaused, updateCount, ui, upd, runs, grid0, frames,
                                  screen, taskChannel, workers, alt, rec>>
    \/ \E c \in DOMAIN dc.calls :
         /\ RangeTest(c) \/ RangeSpawn(c) \/ RangeWait(c) \/ RangeRow(c) \/ RangeDone(c)
         /\ UNCHANGED <<r, scaleFactor, avgStartingLiveCellPercentage, isPaused,
                        updateCount, ui, upd, runs, grid0, frames, screen,
                        taskChannel, workers, alt, rec>>
    \/ DivideCommit /\ UNCHANGED <<r, scaleFactor, avgStartingLiveCellPercentage,
                                   isPaused, updateCount, ui, upd, runs, grid0, frames,
                                   screen, taskChannel, workers, alt, rec>>

SpecDivide == InitDivide /\ [][NextDivide]_vars

\* ------------------------------------------------------------ claims

\* The rows and columns of the board, without the border.
Rows == 1..gridY
Cols == 1..gridX

\* The slots of the border: row 0, row gridY+1, column 0, column gridX+1.
BorderSlots ==
    { Idx(gridX, i, j) : i \in {0, gridY + 1}, j \in 0..(gridX + 1) }
    \cup { Idx(gridX, i, j) : i \in 0..(gridY + 1), j \in {0, gridX + 1} }

\* Both passes of the running updateBoard call are over: the second
\* wg.Wait() returns and the commit is next.
CommitReady == pc = "border" /\ wg = 0

\* The cell (i, j) of generation G(t) makes a transition in this tick.
Transitions(i, j) ==
    LET val == worldGrid[Idx(gridX, i, j)]
    IN  InTable(val) /\ (becomesAliveTable[val] \/ becomesDeadTable[val])

\* The goroutine tasks[k] has run the kernel on row y.
Processed(k, y) == tasks[k].minY <= y /\ y <= tasks[k].maxY /\ tasks[k].row > y

\* The goroutine tasks[k] has written buffer and pixels.
HasWritten(k) == \E y \in Rows, j \in Cols : Processed(k, y) /\ Transitions(y, j)

\* The number of alive cells among the 8 Moore neighbours of (i, j) in grid,
\* the cells of the border counting as dead.
MooreCount(grid, i, j) ==
    Cardinality({ <<a, b>> \in (-1..1) \X (-1..1) :
                    /\ <<a, b>> # <<0, 0>>
                    /\ i + a \in Rows /\ j + b \in Cols
                    /\ grid[Idx(gridX, i + a, j + b)] % 2 = 1 })

\* C1: when both passes of updateBoard are over, a cell is alive in the next
\* generation (buffer, which the commit copies to worldGrid) iff it is dead in
\* G(t) and B[n] holds or alive in G(t) and S[n] holds, n its number of alive
\* Moore neighbours in G(t).
C1_LifeLikeRule ==
    CommitReady =>
        \A i \in Rows, j \in Cols :
            LET n == MooreCount(worldGrid, i, j)
                alive == worldGrid[Idx(gridX, i, j)] % 2 = 1
            IN  (buffer[Idx(gridX, i, j)] % 2 = 1)
                    <=> ((~alive /\ bRules[n]) \/ (alive /\ sRules[n]))

\* C1 witness: a tick on a board of at least two ranges in which a cell is
\* born, one dies, one survives and one stays dead, and a cell has at least 6
\* alive neighbours.
C1_Witness ==
    /\ CommitReady
    /\ numParts >= 2
    /\ \E i \in Rows, j \in Cols : MooreCount(worldGrid, i, j) >= 6
    /\ \A was \in {0, 1}, is \in {0, 1} :
          \E i \in Rows, j \in Cols :
              /\ worldGrid[Idx(gridX, i, j)] % 2 = was
              /\ buffer[Idx(gridX, i, j)] % 2 = is

\* The number of slots with alive bit 1 in the 3x3 window centred at (i, j),
\* the centre excluded.
WindowCount(grid, i, j) ==
    Cardinality({ <<a, b>> \in (-1..1) \X (-1..1) :
                    /\ <<a, b>> # <<0, 0>>
                    /\ grid[Idx(gridX, i + a, j + b)] % 2 = 1 })

RECURSIVE RunTasks(_, _, _)
RunTasks(st, ts, k) ==
    IF Evaluated(st) /\ k > Len(ts) THEN st
    ELSE RunTasks(updateRange(st, ts[k].minY, ts[k].maxY), ts, k + 1)

SerialBuffer ==
    LET n == NumParts(1, gridY)
        rpp == gridY \div n
    IN  RunTasks([buf |-> worldGrid, pix |-> pixels],
                 InteriorTasks(n, rpp, gridY) \o BorderTasks(n, rpp, gridY), 1).buf

\* C3: whatever POOL_SIZE is and however the goroutines of a phase
\* interleave, the grid that updateBoard commits is the one it commits with
\* POOL_SIZE = 1.
C3_ParallelSerial == CommitReady => buffer = SerialBuffer

\* C3 witness: a second tick on at least two ranges whose seam rows change.
C3_Witness ==
    /\ CommitReady
    /\ boardUpdates = 1
    /\ numParts >= 2
    /\ buffer # worldGrid
    /\ \E j \in Cols : Transitions(rowsPerPart, j) /\ Transitions(rowsPerPart + 1, j)

\* The slots of buffer and the bytes of pixels that updateRange(minY, maxY)
\* writes when every cell of its rows makes a transition.
BufferFootprint(t) ==
    UNION { KernelSlots(gridX, i, j) : i \in t.minY..t.maxY, j \in Cols }

PixelFootprint(t) ==
    { 4 * ((i - 1) * gridX + (j - 1)) + c : i \in t.minY..t.maxY, j \in Cols, c \in 0..3 }

\* Two goroutines of one phase share no slot of buffer and no byte of pixels.
RaceFree(phase) ==
    LET ks == { k \in DOMAIN tasks : tasks[k].phase = phase }
        buf == [k \in ks |-> BufferFootprint(tasks[k])]
        pix == [k \in ks |-> PixelFootprint(tasks[k])]
    IN  \A k1 \in ks, k2 \in ks :
            k1 < k2 => (buf[k1] \cap buf[k2] = {} /\ pix[k1] \cap pix[k2] = {})

\* C4: the goroutines of the interior pass never write the same slot of
\* buffer nor the same byte of pixels.
C4_InteriorRaceFree == RaceFree("interior")

\* C4 witness: two goroutines of the interior pass are running and both have
\* written.
C4_Witness ==
    \E k1 \in DOMAIN tasks, k2 \in DOMAIN tasks :
        /\ k1 < k2
        /\ tasks[k1].phase = "interior" /\ tasks[k2].phase = "interior"
        /\ ~tasks[k1].done /\ ~tasks[k2].done
        /\ HasWritten(k1) /\ HasWritten(k2)

\* C5: the goroutines of the border pass (row 1, row gridY and one two-row
\* band per seam) never write the same slot of buffer nor the same byte of
\* pixels.
C5_BorderRaceFree == RaceFree("border")

\* C5 witness: on at least three ranges, two seam bands and the goroutine of
\* row 1 have all written while the seam bands are still running.
C5_Witness ==
    /\ numParts >= 3
    /\ Len(tasks) >= numParts + 4
    /\ HasWritten(numParts + 1)
    /\ HasWritten(numParts + 3) /\ ~tasks[numParts + 3].done
    /\ HasWritten(numParts + 4) /\ ~tasks[numParts + 4].done

\* Every goroutine started so far in the running call has finished.
AllDone == \A k \in DOMAIN tasks : tasks[k].done

\* C6: a step that starts the goroutines of the border pass is taken only
\* when every goroutine of the interior pass has finished, and the step that
\* commits buffer to worldGrid only when every goroutine of the border pass
\* (started in this call) has finished.
C6_PhaseBarriers ==
    [][ /\ (\E k \in DOMAIN tasks' : k \notin DOMAIN tasks /\ tasks'[k].phase = "border")
            => AllDone
        /\ (boardUpdates' # boardUpdates)
            => (AllDone /\ \E k \in DOMAIN tasks : tasks[k].phase = "border") ]_vars

\* C6 witness: a second call, on at least two ranges, has passed its first
\* barrier and waits at the second while a border goroutine has finished.
C6_Witness ==
    /\ boardUpdates = 1
    /\ pc = "border"
    /\ numParts >= 2
    /\ wg > 0
    /\ \E k \in DOMAIN tasks : tasks[k].phase = "border" /\ tasks[k].done

\* The number of goroutines of the running call that have run the kernel on
\* row y.
Visits(y) == Cardinality({ k \in DOMAIN tasks : Processed(k, y) })

\* C7: in one updateBoard call no row is processed twice, and when both
\* passes are over every row 1..gridY has been processed exactly once.
C7_ExactlyOnce ==
    /\ \A y \in Rows : Visits(y) <= 1
    /\ CommitReady => \A y \in Rows : Visits(y) = 1

\* C7 witness: both passes are over on three ranges of which the last is
\* longer than the others.
C7_Witness ==
    /\ CommitReady
    /\ numParts = 3
    /\ gridY > numParts * rowsPerPart

\* C8: after InitializeBoard and after every completed updateBoard, the 4
\* bytes of the pixel of every interior cell are WHITE iff the cell is alive
\* and BLACK otherwise.
C8_PixelCoherence ==
    pc = "idle" =>
        \A i \in Rows, j \in Cols :
            LET ind == 4 * ((i - 1) * gridX + (j - 1))
                px == << pixels[ind], pixels[ind + 1], pixels[ind + 2], pixels[ind + 3] >>
            IN  IF worldGrid[Idx(gridX, i, j)] % 2 = 1
                THEN px = <<255, 255, 255, 255>>
                ELSE px = <<0, 0, 0, 255>>

\* C8 witness: after two completed calls on at least two ranges there are
\* white and black pixels.
C8_Witness ==
    /\ pc = "idle"
    /\ boardUpdates = 2
    /\ numParts >= 2
    /\ \E k \in DOMAIN pixels : pixels[k] = 0
    /\ \E k \in DOMAIN pixels : k % 4 = 0 /\ pixels[k] = 255

C10_Partition ==
    pc # "idle" =>
        /\ pc # "panic"
        /\ 1 <= numParts /\ numParts <= POOL_SIZE
        /\ numParts > 1 =>
              \A i \in 0..(numParts - 1) :
                  PartMaxY(i, numParts, rowsPerPart, gridY) - PartMinY(i, rowsPerPart) + 1
                      >= MinRowsPerPart

\* The number of updateBoard calls of the frames q[a..b].
RECURSIVE CallsIn(_, _, _)
CallsIn(q, a, b) == IF a > b THEN 0 ELSE q[a].calls + CallsIn(q, a + 1, b)

C12_TablesAgree ==
    runs >= 1 =>
        \A v \in 0..(TableLen - 1) :
            /\ becomesAliveTable[v] <=> (v % 2 = 0 /\ bRules[v \div 2])
            /\ becomesDeadTable[v] <=> (v % 2 = 1 /\ ~sRules[v \div 2])

\* C12 witness: a restart took rule sets edited in the pause menu, B03/S023,
\* and updateBoard has run with them.
C12_Witness ==
    /\ runs = 2
    /\ bRules = Ruleset({0, 3})
    /\ sRules = Ruleset({0, 2, 3})
    /\ pc = "border"

\* C13: a step in which InitializeBoard replaces worldGrid, buffer and pixels
\* (restart, which rebuilds the rule tables too) is taken only when no
\* updateBoard call is running, with no goroutine of updateRange running or
\* waiting to run; and the goroutines of a call are gone only once all of them
\* have finished.
C13_RestartNotMidTick ==
    [][ /\ (runs' # runs) =>
              (pc = "idle" /\ upd.at = "out" /\ tasks = << >> /\ wg = 0)
        /\ (tasks # << >> /\ tasks' = << >>) => (AllDone /\ wg = 0) ]_vars

\* C13 witness: restart has just replaced the board between two unpaused
\* Update calls, after updateBoard calls and before the next.
C13_Witness ==
    /\ runs = 2
    /\ ~isPaused
    /\ boardUpdates >= 2
    /\ upd.at = "loop"
    /\ upd.todo > 0
    /\ upd.base = boardUpdates
    /\ worldGrid # grid0.grid

C15_PackedRange ==
    \A k \in DOMAIN worldGrid : worldGrid[k] >= 0 /\ worldGrid[k] < TableLen

\* C15 witness: the kernel runs on a generation after the first that holds a
\* cell of value 17 and a cell of value 0.
C15_Witness ==
    /\ pc = "border"
    /\ boardUpdates >= 1
    /\ \E k \in DOMAIN worldGrid : worldGrid[k] = 17
    /\ \E k \in DOMAIN worldGrid : worldGrid[k] = 0

\* The cells of the board that are alive in grid.
AliveCells(grid) == { c \in Rows \X Cols : grid[Idx(gridX, c[1], c[2])] % 2 = 1 }

\* The rules are B3/S23.
Conway == bRules = Ruleset({3}) /\ sRules = Ruleset({2, 3})

\* Every pixel is BLACK.
AllBlack ==
    \A k \in DOMAIN pixels : pixels[k] = IF k % 4 = 3 THEN 255 ELSE 0

\* The first board is 5x5 with the blinker (2,2),(2,3),(2,4) alive and nothing
\* else, rows and columns counted from 1 - d.
BlinkerAt(d) ==
    /\ grid0.gridX = 5 /\ grid0.gridY = 5
    /\ AliveCells(grid0.grid) = { <<2 + d, j>> : j \in (2 + d)..(4 + d) }

\* C16: on the 5x5 board with the blinker under B3/S23, after one updateBoard
\* (and after every odd number of calls) exactly the rotated blinker
\* (1,3),(2,3),(3,3) is alive, and after two calls (every even number)
\* worldGrid equals G(0) slot for slot.
C16_Blinker ==
    \A d \in {0, 1} :
        (BlinkerAt(d) /\ Conway /\ pc = "idle") =>
            IF boardUpdates % 2 = 1
            THEN AliveCells(worldGrid) = { <<i, 3 + d>> : i \in (1 + d)..(3 + d) }
            ELSE worldGrid = grid0.grid

\* C16 witness: two updateBoard calls are over on the blinker board.
C16_Witness ==
    /\ BlinkerAt(0) /\ Conway
    /\ pc = "idle"
    /\ boardUpdates = 2
    /\ worldGrid[Idx(gridX, 2, 3)] = 5

\* The only alive cells of grid form a 2x2 block.
IsBlock(grid) ==
    \E i \in 1..(gridY - 1), j \in 1..(gridX - 1) :
        AliveCells(grid) = {i, i + 1} \X {j, j + 1}

\* C17: on a board whose only alive cells form a 2x2 block, under B3/S23,
\* worldGrid and pixels stay what InitializeBoard left, through every
\* generation, and the goroutines of updateRange write nothing: buffer stays
\* the snapshot of worldGrid.
C17_StillLife ==
    (IsBlock(grid0.grid) /\ Conway) =>
        /\ worldGrid = grid0.grid
        /\ pixels = grid0.pix
        /\ pc \in {"interior", "border"} => buffer = worldGrid

\* C17 witness: both passes of a third updateBoard are over on two ranges
\* with the block across their seam.
C17_Witness ==
    /\ IsBlock(grid0.grid) /\ Conway
    /\ CommitReady
    /\ boardUpdates = 2
    /\ numParts = 2
    /\ worldGrid[Idx(gridX, rowsPerPart, 1)] % 2 = 1
    /\ worldGrid[Idx(gridX, rowsPerPart + 1, 1)] % 2 = 1

\* C18: InitializeBoard at 0 percent leaves no cell alive, and under rules
\* with B[0] false every slot of worldGrid stays 0 and every pixel BLACK,
\* whatever the number of updateBoard calls.
C18_DensityZero ==
    (avgStartingLiveCellPercentage = 0 /\ ~bRules[0]) =>
        /\ \A k \in DOMAIN worldGrid : worldGrid[k] = 0
        /\ AllBlack

\* C18 witness: two updateBoard calls on two ranges are over on a board
\* initialized at 0 percent, under B3/S23.
C18_Witness ==
    /\ avgStartingLiveCellPercentage = 0 /\ Conway
    /\ pc = "idle"
    /\ boardUpdates = 2
    /\ numParts = 2

\* C19: InitializeBoard at 100 percent leaves every cell of the board alive,
\* and under B3/S23 the program does not stop before the grid is all dead.
C19_DensityFull ==
    (avgStartingLiveCellPercentage = 1000 /\ Conway) =>
        /\ (boardUpdates = 0 /\ pc = "idle") => AliveCells(worldGrid) = Rows \X Cols
        /\ pc = "panic" => AliveCells(worldGrid) = {}

\* C20: on the 4x4 board with no cell alive, under B0/S, after one updateBoard
\* every cell of the board is alive and every border cell is dead.
C20_BirthOnZero ==
    (/\ gridX = 4 /\ gridY = 4
     /\ AliveCells(grid0.grid) = {}
     /\ bRules = Ruleset({0}) /\ sRules = Ruleset({})
     /\ boardUpdates = 1 /\ pc = "idle") =>
        /\ AliveCells(worldGrid) = Rows \X Cols
        /\ \A k \in BorderSlots : worldGrid[k] % 2 = 0

\* C20 witness: the first updateBoard is over on the 4x4 board that started
\* with no cell alive, under B0/S, and the cell (2, 2) holds 17.
C20_Witness ==
    /\ gridX = 4 /\ gridY = 4
    /\ AliveCells(grid0.grid) = {}
    /\ bRules = Ruleset({0}) /\ sRules = Ruleset({})
    /\ boardUpdates = 1 /\ pc = "idle"
    /\ worldGrid[Idx(gridX, 2, 2)] = 17

\* The cells of S moved by d rows and d columns.
Shifted(S, d) == { <<c[1] + d, c[2] + d>> : c \in S }

\* The first board is the board of the glider: one glider at the centre, in
\* its phase p, and nothing else.
GliderAt(p) ==
    /\ grid0.gridX = GliderBoard /\ grid0.gridY = GliderBoard
    /\ AliveCells(grid0.grid) =
           { <<GliderCorner + c[1], GliderCorner + c[2]>> : c \in GliderPhases[p] }

\* The cells of the glider n - 1 generations after its phase 1 at the centre.
GliderCells(n) ==
    Shifted({ <<GliderCorner + c[1], GliderCorner + c[2]>> :
              c \in GliderPhases[((n - 1) % 4) + 1] }, (n - 1) \div 4)

C22_LegalScaleFactor ==
    /\ ui.scaleFactorIndex \in 0..(Len(possibleScaleFactors) - 1)
    /\ runs >= 1 => /\ scaleFactor >= 1
                    /\ screen[1] % scaleFactor = 0
                    /\ screen[2] % scaleFactor = 0

\* C23: after every handleInput call, whatever the +/- keys and modifiers
\* pressed so far, selectedLiveCellPercent is within [0, 100] (0..1000
\* tenths), and so is the percentage restart handed to the engine.
C23_DensityClamp ==
    /\ ui.selectedLiveCellPercent \in 0..1000
    /\ avgStartingLiveCellPercentage \in 0..1000

\* C23 witness: the menu was brought down to 0 percent and the engine was
\* restarted with it, at the scale factor 4.
C23_Witness ==
    /\ runs = 2
    /\ avgStartingLiveCellPercentage = 0
    /\ ui.selectedLiveCellPercent = 0
    /\ r # NewSource(SEED)
    /\ scaleFactor = 4

\* The number of slots of the slice (a function on 0..n-1) q.
SliceLen(q) == Cardinality(DOMAIN q)

\* C24: a step that restarts leaves bRules and sRules equal to the selected
\* rule sets of the menu, the scale factor and the percentage equal to the
\* selected ones, gridX and gridY the screen size divided by the scale
\* factor, worldGrid and buffer of (gridX+2)*(gridY+2) slots and pixels of
\* 4*gridX*gridY bytes.
C24_RestartPostcondition ==
    [][(runs >= 1 /\ runs' = runs + 1) =>
          /\ bRules' = ui'.selectedBRules
          /\ sRules' = ui'.selectedSRules
          /\ scaleFactor' = possibleScaleFactors[ui'.scaleFactorIndex + 1]
          /\ avgStartingLiveCellPercentage' = ui'.selectedLiveCellPercent
          /\ gridX' = screen[1] \div scaleFactor'
          /\ gridY' = screen[2] \div scaleFactor'
          /\ SliceLen(worldGrid') = (gridX' + 2) * (gridY' + 2)
          /\ SliceLen(buffer') = (gridX' + 2) * (gridY' + 2)
          /\ SliceLen(pixels') = 4 * gridX' * gridY']_vars

\* C24 witness: the game was restarted with B0 added to the rules, 60 percent
\* and the scale factor 4 selected in the menu.
C24_Witness ==
    /\ runs = 2
    /\ bRules = Ruleset({0, 3})
    /\ avgStartingLiveCellPercentage = 600
    /\ scaleFactor = 4
    /\ gridX = 1 /\ gridY = 2
    /\ SliceLen(worldGrid) = 12

\* C25: a frame of the pause menu without R, whatever it edits (rules,
\* percentage, scale factor), leaves bRules, sRules, the rule tables,
\* scaleFactor, the percentage, gridX, gridY, worldGrid and pixels of the
\* engine unchanged.
C25_OnlyRestartTransfers ==
    [][(\E keys \in KeyInputs : "R" \notin keys /\ UpdateEnter(keys)) =>
          UNCHANGED <<bRules, sRules, becomesAliveTable, becomesDeadTable, scaleFactor,
                      avgStartingLiveCellPercentage, gridX, gridY, worldGrid, pixels>>]_vars

\* C25 witness: before any restart, the menu holds other rules, another
\* percentage and another scale factor than the engine.
C25_Witness ==
    /\ runs = 1
    /\ ui.selectedBRules # bRules
    /\ ui.selectedLiveCellPercent = 990
    /\ avgStartingLiveCellPercentage = 500
    /\ getScaleFactor(ui) = 1
    /\ scaleFactor = 2

\* The tasks updateBoardAlt has added to wg that no worker has run to the
\* end of updateRange: added and not sent, in the channel, in a worker.
InFlight ==
    (alt.added - alt.sent) + Len(taskChannel)
    + Cardinality({ w \in DOMAIN workers : workers[w].at \in {"updateRange", "rangeDone"} })

\* C26: for every task sent on taskChannel and run by a worker the counter of
\* wg is decremented exactly once: the counter is the number of tasks added
\* and not finished, it is never negative, and wg.Wait() (which returns at 0)
\* does not return while a task is to run or running.
C26_DoneOncePerTask ==
    /\ wg >= 0
    /\ wg = InFlight

\* C27: a tick through the channel completes: updateBoardAlt never stops
\* inside a tick, neither by a panic nor for want of a step of it or of a
\* worker.
C27_TickCompletes ==
    /\ pc # "panic"
    /\ pc \in {"altInterior", "altBorder"} => ENABLED NextAlt

\* The colour of the pixel of the cell (i, j) in pix.
PixelOf(pix, i, j) ==
    LET ind == 4 * ((i - 1) * gridX + (j - 1))
    IN  << pix[ind], pix[ind + 1], pix[ind + 2], pix[ind + 3] >>

\* What the kernel decides for the cell (i, j) from its value in G(t): 1 when
\* it becomes alive, -1 when it dies, 0 when it makes no transition.
Decision(i, j) ==
    LET val == worldGrid[Idx(gridX, i, j)]
    IN  IF ~InTable(val) THEN 0
        ELSE IF becomesAliveTable[val] THEN 1
        ELSE IF becomesDeadTable[val] THEN -1
        ELSE 0

\* Some goroutine has run the kernel on row i.
RowDone(i) == \E k \in DOMAIN tasks : Processed(k, i)

\* C28: between the snapshot and the commit of one updateBoard call no step
\* writes worldGrid or the rule tables, and what the kernel has written for a
\* cell is what the value of the cell in G(t) decides: its pixel is WHITE if
\* it is born or stays alive in G(t), BLACK if not, and the pixel of a cell
\* not visited yet is that of G(t).
C28_CurrentReadOnly ==
    /\ [][(pc \in {"interior", "border"} /\ pc' \in {"interior", "border"}) =>
            UNCHANGED <<worldGrid, becomesAliveTable, becomesDeadTable, bRules, sRules>>]_vars
    /\ [](pc \in {"interior", "border"} =>
            \A i \in Rows, j \in Cols :
                LET was == worldGrid[Idx(gridX, i, j)] % 2
                    is == IF RowDone(i) THEN was + Decision(i, j) ELSE was
                IN  PixelOf(pixels, i, j) = IF is = 1 THEN <<255, 255, 255, 255>>
                                            ELSE <<0, 0, 0, 255>>)

\* C28 witness: in the border pass of a second tick on at least two ranges,
\* a visited cell was born, its slot of buffer already changed by a later
\* write, and another cell is yet to be visited.
C28_Witness ==
    /\ pc = "border"
    /\ boardUpdates = 1
    /\ numParts >= 2
    /\ \E i \in Rows, j \in Cols :
          /\ RowDone(i)
          /\ Decision(i, j) = 1
          /\ buffer[Idx(gridX, i, j)] # worldGrid[Idx(gridX, i, j)] + 1
    /\ \E i \in Rows : ~RowDone(i)

\* What the transitions of the cells of row y add to slot s of buffer: for
\* each of the (at most three) cells of the row that touch s, 1 if s is the
\* cell itself and 2 if s is one of its 8 neighbours, negated when it dies.
RowEffect(y, s) ==
    LET a == s \div (gridX + 2)
        b == s % (gridX + 2)
        of(j) == IF j \in Cols /\ a \in (y - 1)..(y + 1)
                 THEN Decision(y, j) * (IF a = y /\ j = b THEN 1 ELSE 2)
                 ELSE 0
    IN  of(b - 1) + of(b) + of(b + 1)

\* C29: a step in which a goroutine runs the kernel on a row y writes
\* nothing for the cells of the row that make no transition; for a cell that
\* becomes alive it adds 2 to each of its 8 neighbours and 1 to its own slot
\* and paints its pixel WHITE, for a cell that dies it subtracts them and
\* paints BLACK; every other slot and pixel is unchanged.
C29_OnlyTransitionsWrite ==
    [][\A k \in DOMAIN tasks :
          (/\ pc \in {"interior", "border"} /\ pc' = pc
           /\ k \in DOMAIN tasks'
           /\ tasks[k].row <= tasks[k].maxY
           /\ tasks'[k].row = tasks[k].row + 1) =>
              LET y == tasks[k].row
              IN  /\ \A s \in DOMAIN buffer : buffer'[s] = buffer[s] + RowEffect(y, s)
                  /\ \A i \in Rows, j \in Cols :
                        PixelOf(pixels', i, j) =
                            IF i = y /\ Decision(i, j) = 1 THEN <<255, 255, 255, 255>>
                            ELSE IF i = y /\ Decision(i, j) = -1 THEN <<0, 0, 0, 255>>
                            ELSE PixelOf(pixels, i, j)]_vars

\* C29 witness: the kernel has run on a row in which one cell was born, one
\* died and one made no transition.
C29_Witness ==
    /\ pc \in {"interior", "border"}
    /\ \E i \in Rows :
          /\ RowDone(i)
          /\ \E j \in Cols : Decision(i, j) = 1
          /\ \E j \in Cols : Decision(i, j) = -1
          /\ \E j \in Cols : Decision(i, j) = 0

\* Every slot of buf that is a cell of the board holds a value in 0..17.
InteriorInRange(buf) ==
    \A i \in Rows, j \in Cols : buf[Idx(gridX, i, j)] \in 0..17

RECURSIVE RowInRange(_, _, _)
\* The inner loop of updateRange on row i from column j on, started in st,
\* leaves every cell of buffer in 0..17 after each of its cells.
RowInRange(st, i, j) ==
    IF j > gridX THEN TRUE
    ELSE LET next == KernelCell(st, i, j)
         IN  InteriorInRange(next.buf) /\ RowInRange(next, i, j + 1)

\* C30: at every point of an updateBoard call, between two rows of the
\* goroutines and between two cells of the row a goroutine is in, whatever
\* the order of the goroutines, every cell of buffer holds a value in 0..17.
C30_NoOverflowInTick ==
    pc \in {"interior", "border"} =>
        /\ InteriorInRange(buffer)
        /\ \A k \in DOMAIN tasks :
              tasks[k].row <= tasks[k].maxY =>
                  RowInRange([buf |-> buffer, pix |-> pixels], tasks[k].row, 1)

\* C30 witness: inside the border pass on at least two ranges, a cell of
\* buffer holds 17, another holds 0 after it held more, and a goroutine is
\* before a row with a transition.
C30_Witness ==
    /\ pc = "border"
    /\ numParts >= 2
    /\ \E i \in Rows, j \in Cols : buffer[Idx(gridX, i, j)] = 17
    /\ \E i \in Rows, j \in Cols :
          buffer[Idx(gridX, i, j)] = 0 /\ worldGrid[Idx(gridX, i, j)] > 0
    /\ \E k \in DOMAIN tasks :
          /\ tasks[k].row <= tasks[k].maxY
          /\ \E j \in Cols : Decision(tasks[k].row, j) # 0

\* The alive bit of the cell (i, j) of worldGrid if it is a cell of the board,
\* 0 if (i, j) is outside the board.
BoardBit(i, j) ==
    IF i >= 1 /\ i <= gridY /\ j >= 1 /\ j <= gridX
    THEN worldGrid[Idx(gridX, i, j)] % 2 ELSE 0

\* C31: in every reachable state every border cell of worldGrid has alive
\* bit 0 and holds 2 times the number of alive cells of the board adjacent
\* to it: for a cell of the rows 0 and gridY+1 those of the nearest row of
\* the board in its column and the two beside, for a cell of the columns 0
\* and gridX+1 those of the nearest column in its row and the two beside.
C31_BorderCounts ==
    /\ \A k \in BorderSlots : worldGrid[k] % 2 = 0
    /\ \A a \in {0, gridY + 1}, b \in 0..(gridX + 1) :
          LET i == IF a = 0 THEN 1 ELSE gridY
          IN  worldGrid[Idx(gridX, a, b)] =
                  2 * (BoardBit(i, b - 1) + BoardBit(i, b) + BoardBit(i, b + 1))
    /\ \A a \in 1..gridY, b \in {0, gridX + 1} :
          LET j == IF b = 0 THEN 1 ELSE gridX
          IN  worldGrid[Idx(gridX, a, b)] =
                  2 * (BoardBit(a - 1, j) + BoardBit(a, j) + BoardBit(a + 1, j))

\* C31 witness: after a completed updateBoard on at least two ranges a
\* border cell holds another value than after InitializeBoard, and a border
\* cell holds 6.
C31_Witness ==
    /\ pc = "idle"
    /\ boardUpdates = 2
    /\ numParts >= 2
    /\ \E k \in BorderSlots : worldGrid[k] = 6
    /\ \E k \in BorderSlots : worldGrid[k] # grid0.grid[k]

\* This step is a frame of Update in which R was pressed.
RestartFrame == \E keys \in MenuInputs : "R" \in keys /\ UpdateEnter(keys)

\* The source after the n draws of one InitializeBoard, started in state x.
AfterDraws(x, n) == DrawLoop(x, n, 0, 0, {}).r

\* C32: r is seeded by InitializeState only: a step that changes r is an
\* InitializeState or a restart, and a restart draws its board from the
\* state the draws before it left r in, one draw per cell, so a restart with
\* unchanged parameters continues the random stream.
C32_SeededOnce ==
    /\ [][r' # r => (NewGame \/ RestartFrame)]_vars
    /\ [][RestartFrame =>
            LET n == gridX' * gridY'
                d == DrawLoop(r, n, 0, avgStartingLiveCellPercentage', {})
            IN  /\ r # NilSource
                /\ r' = d.r
                /\ r' = AfterDraws(r, n)
                /\ worldGrid' = InitializeBoard(gridX', gridY', d.alive).grid]_vars

\* C32 witness: the first restart of a Game, with the board size and the
\* percentage of the first board, left the board of the second w*h draws of
\* the stream, which is not the first board.
C32_Witness ==
    /\ runs = 2
    /\ gridX = grid0.gridX /\ gridY = grid0.gridY
    /\ gridX * gridY > 0
    /\ avgStartingLiveCellPercentage = grid0.pct
    /\ r = AfterDraws(AfterDraws(NewSource(SEED), gridX * gridY), gridX * gridY)
    /\ worldGrid # grid0.grid
    /\ worldGrid = InitializeBoard(gridX, gridY,
                       DrawLoop(AfterDraws(NewSource(SEED), gridX * gridY), gridX * gridY,
                                0, avgStartingLiveCellPercentage, {}).alive).grid

\* C33: an Update call that finds isPaused true at its pause check, the
\* frame whose SPACE press un-pauses included, calls no updateBoard, leaves
\* updateCount alone and, unless R was pressed, leaves worldGrid and pixels
\* alone; a frame of the running simulation, the one whose SPACE press pauses
\* included, makes the updateBoard calls of its speed before it returns.
C33_PauseFreezes ==
    /\ [][\A keys \in SpeedInputs :
              (isPaused /\ UpdateEnter(keys)) =>
                  /\ upd' = upd /\ pc' = "idle"
                  /\ updateCount' = updateCount
                  /\ boardUpdates' = boardUpdates
                  /\ isPaused' = ("Space" \notin keys)
                  /\ "R" \notin keys => UNCHANGED <<worldGrid, pixels>>]_vars
    /\ [][\A keys \in SpeedInputs :
              (~isPaused /\ UpdateEnter(keys)) =>
                  /\ upd'.at = "loop"
                  /\ upd'.todo = BoardUpdatesOf(ui')
                  /\ upd'.toggle = ("Space" \in keys)
                  /\ isPaused' = FALSE]_vars
    /\ [](upd.at = "loop" =>
            (boardUpdates - upd.base) + upd.todo + (IF pc = "idle" THEN 0 ELSE 1)
                = BoardUpdatesOf(ui))
    /\ [][(upd.at = "loop" /\ upd'.at = "out") =>
              /\ updateCount' = updateCount + 1
              /\ boardUpdates - upd.base = BoardUpdatesOf(ui)
              /\ isPaused' = upd.toggle]_vars

\* C33 witness: the simulation ran a frame with a board update in which
\* SPACE was pressed and is paused since, later frames having left the
\* board and updateCount as that frame left them.
C33_Witness ==
    /\ isPaused
    /\ upd.at = "out"
    /\ runs = 1
    /\ updateCount >= 2
    /\ boardUpdates >= 2
    /\ frames # << >>
    /\ frames[Len(frames)].calls >= 1
    /\ ui.speed # 0

StartFrame ==
    \E keys \in RecordInputs :
        {"Space", "Shift"} \subseteq keys /\ isPaused /\ UpdateEnter(keys)

\* This step is an Update frame of the running simulation with SPACE.
StopFrame ==
    \E keys \in RecordInputs : "Space" \in keys /\ ~isPaused /\ UpdateEnter(keys)

\* C35: isSaving becomes true only in a frame with SHIFT+SPACE that finds the
\* game paused, and false only in a frame with SPACE that finds it running;
\* when no Update call is running isSaving implies not isPaused; a step
\* starts a goroutine that calls writeToFile exactly when it stops a
\* recording, and it starts one.
C35_RecordingStateMachine ==
    /\ [][(~rec.isSaving /\ rec'.isSaving) => StartFrame]_vars
    /\ [][(rec.isSaving /\ ~rec'.isSaving) => StopFrame]_vars
    /\ [](upd.at = "out" /\ rec.isSaving => ~isPaused)
    /\ [][Len(rec'.writers) = Len(rec.writers) + (IF rec.isSaving /\ ~rec'.isSaving
                                                    THEN 1 ELSE 0)]_vars

\* C35 witness: two recordings were started and stopped, the game is paused
\* and the two goroutines that write were started.
C35_Witness ==
    /\ rec.made = 2
    /\ ~rec.isSaving
    /\ isPaused
    /\ upd.at = "out"
    /\ Len(rec.writers) = 2

\* C36: while a goroutine started on a stop of a recording is executing
\* writeToFile, no step replaces g.gifSaver or appends a frame to it.
C36_WriterIsolated ==
    [][(\E w \in DOMAIN rec.writers : rec.writers[w].at \in {"create", "encode"})
          => rec'.gifSaver = rec.gifSaver]_vars

\* The number of the nine slots around (i, j), its own among them, that hold
\* a living cell in grid.
WindowAlive(grid, i, j) ==
    Cardinality({ k \in KernelSlots(gridX, i, j) : grid[k] % 2 = 1 })

\* C39: in the engine of main.go, after initializeBoard and after every
\* Update call, the value of every cell of the board is twice the number of
\* living cells among the nine cells of its 3x3 window, itself included, plus
\* its own alive bit; no Update indexes BRules or SRules out of range; and
\* verifyNeighbourCounts, whose loops both run to gridY, passes on the boards
\* that are at least as wide as high.
C39_SelfInclusiveCounts ==
    /\ pc = "idle"
    /\ \A i \in Rows, j \in Cols :
         worldGrid[Idx(gridX, i, j)] =
            2 * WindowAlive(worldGrid, i, j) + (worldGrid[Idx(gridX, i, j)] % 2)
    /\ gridY <= gridX => verifyNeighbourCounts(gridX, gridY, worldGrid) = "pass"

\* C39 witness: after a restart and two Update calls that were not paused, a
\* board that is not the first one, with a living cell that counts itself
\* and two neighbours and a dead cell that counts three.
C39_Witness ==
    /\ boardUpdates >= 2
    /\ runs = 2
    /\ worldGrid # grid0.grid
    /\ \E i \in Rows, j \in Cols : worldGrid[Idx(gridX, i, j)] = 7
    /\ \E i \in Rows, j \in Cols : worldGrid[Idx(gridX, i, j)] = 6

\* C37: while the divide-and-conquer Update runs, the number of goroutines
\* alive is at most MAX_ROUTINES.
C37_GoroutineLimit == dc.at = "running" => NumGoroutine <= MAX_ROUTINES

\* The calls that updateRange call c started with its go statements, in
\* their order: the first half and the second half.
HalvesOf(c) == { k \in DOMAIN dc.calls : dc.calls[k].parent = c }

\* C38: the two halves of a split, with all the calls below them, never
\* write the same slot of buffer; the two rows between the halves are
\* processed only when both halves have ended; no row is processed twice,
\* and when an updateRange call returns the leaf kernel has processed every
\* row of its range exactly once.
C38_DivideAndConquer ==
    /\ \A c \in DOMAIN dc.calls : \A l, k \in HalvesOf(c) :
          l # k => dc.calls[l].wrote \cap dc.calls[k].wrote = {}
    /\ \A c \in DOMAIN dc.calls :
          (\/ dc.calls[c].at = "band"
           \/ /\ HalvesOf(c) # {}
              /\ dc.processed[MidY(c)] + dc.processed[MidY(c) + 1] > 0)
          => /\ Cardinality(HalvesOf(c)) = 2
             /\ \A k \in HalvesOf(c) : dc.calls[k].at = "done"
    /\ \A i \in DOMAIN dc.processed : dc.processed[i] <= 1
    /\ \A c \in DOMAIN dc.calls :
          dc.calls[c].at \in {"exit", "done"}
          => \A i \in dc.calls[c].minY..dc.calls[c].maxY : dc.processed[i] = 1

\* C38 witness: Update has returned from a board of ten rows or more that
\* was split at two depths, seven updateRange calls in all; each half of the
\* first split wrote buffer, and every row was processed once.
C38_Witness ==
    /\ dc.at = "idle"
    /\ boardUpdates >= 1
    /\ gridY >= 10
    /\ Len(dc.calls) = 7
    /\ \A k \in HalvesOf(1) : dc.calls[k].wrote # {} /\ HalvesOf(k) # {}
    /\ \A i \in 1..gridY : dc.processed[i] = 1
    /\ worldGrid # grid0.grid

====
